---- MODULE Spec2Model ----
(***************************************************************************)
(* A model of lychee-ai-organizer's generation-and-orchestration pipeline: *)
(*   - the Inference Client's retry loop   (internal/ollama/client.go)     *)
(*   - the Album Describer and the Hierarchical Compactor  (client.go)     *)
(*   - the Suggestion Engine and the Suggestion Cache                      *)
(*                          (client.go, internal/api, internal/cache)      *)
(*   - the Batch Job Controller        (internal/websocket/websocket.go)   *)
(*                                                                         *)
(* Each component has its own variables, its own initial condition and its *)
(* own next-state relation; a component that a specification does not run  *)
(* is parked in a single idle state.                                       *)
(*                                                                         *)
(* Text is a sequence of tokens.  A nullable column (sql.NullString,       *)
(* sql.NullTime) is a record [Valid, String] / [Valid, Time], as in Go.    *)
(***************************************************************************)
EXTENDS Integers, Sequences, FiniteSets, TLC

VARIABLES
  \* ---- Client.generateWithRetry
  rPc,          \* "ready" | "running" | "done" | "failed"
  rN,           \* retry.Do's attempt index n
  rResponse,    \* the strings.Builder `response`
  rHistory,     \* one record per attempt made: its fragments and its outcome
  rResult       \* [text, err] returned by generateWithRetry

retryVars == <<rPc, rN, rResponse, rHistory, rResult>>

VARIABLES
  \* ---- Client.GenerateAlbumDescription / compactDescriptionsHierarchically
  aPc,          \* position in the call
  aInput,       \* the call's arguments: [entry, base, n]
  aDescs,       \* photoDescriptions (extractPhotoData)
  aDates,       \* dates (extractPhotoData)
  cDescs,       \* compaction: `descriptions` of the current level
  cBatches,     \* compaction: `batches` of the current level
  cCompressed,  \* compaction: `compressedBatches` of the current level
  cLevel,       \* compaction: number of levels entered that compress batches
  aCompacted,   \* compactedDescriptions
  aCalls,       \* inference operations made: [compress, synth]
  aResult       \* [text, list, err] returned to the caller

albumVars == <<aPc, aInput, aDescs, aDates, cDescs, cBatches, cCompressed,
               cLevel, aCompacted, aCalls, aResult>>

VARIABLES
  \* ---- Client.GenerateAlbumSuggestions
  gPc,          \* "ready" | "done" | "error"
  gPhoto,       \* the call's argument `photo`
  gAlbums,      \* the call's argument `albums`
  gAnswer,      \* what the inference operation gives back if it is called
  gResult       \* [suggestions, err, calls]: what the call returns and costs

generateVars == <<gPc, gPhoto, gAlbums, gAnswer, gResult>>

VARIABLES
  \* ---- Server.handlePhotoSuggestions, Cache
  sCache,       \* Cache.suggestions: photo id -> list of album ids
  sFile,        \* the cache file: [exists, content]
  sAlbums,      \* what DB.GetTopLevelAlbums returns
  sReq          \* the suggestion requests being served, one record each

suggestVars == <<sCache, sFile, sAlbums, sReq>>

VARIABLES
  \* ---- Handler (websocket): the batch jobs and the tables they work on
  jPhotoDesc,   \* photos._ai_description, by photo id
  jAlbumDesc,   \* base_albums._ai_description, by album id
  jJob          \* the job tasks started on the connection, one record each

jobVars == <<jPhotoDesc, jAlbumDesc, jJob>>

VARIABLES
  \* ---- DB.GetPhotoSizeVariant
  vPc,          \* "ready" | "found" | "error"
  vRows,        \* the types of the photo's rows in size_variants
  vResult       \* [variant, err] returned

variantVars == <<vPc, vRows, vResult>>

VARIABLES
  \* ---- App.Run and Cache.Load
  uPc,          \* position in App.Run
  uFile,        \* what is at the cache path: [kind, entries]
  uCache,       \* Cache.suggestions
  uPending,     \* Load: the parsed entries not yet stored
  uLoadErr,     \* the error Load returned, "" for nil
  uRunErr       \* the error Run returned, "" while it has not returned

startupVars == <<uPc, uFile, uCache, uPending, uLoadErr, uRunErr>>

VARIABLES
  \* ---- the text a description operation returns for a completion
  tPc,          \* "ready" | "done"
  tCompletion,  \* the completion text the successful attempt streamed
  tResult       \* the description returned

thinkVars == <<tPc, tCompletion, tResult>>

VARIABLES
  \* ---- the albums the configured blocklist and pinned_only let through
  kPc,          \* "ready" | "done"
  kBlocklist,   \* DB.blocklist: the configured album ids
  kPinnedOnly,  \* DB.pinnedOnly
  kRows,        \* base_albums joined with albums: one row per album
  kCached,      \* the suggestion list the cache holds for the photo asked about
  kDescribed,   \* the album ids an album job described, in order
  kReturned     \* the album ids a suggestions response carried, in order

scopeVars == <<kPc, kBlocklist, kPinnedOnly, kRows, kCached, kDescribed, kReturned>>

VARIABLES
  \* ---- the photo loop of a job, GeneratePhotoDescription step by step
  iPc,          \* "ready" | the step the current item is about to take | "done"
  iPhotos,      \* the pool: one record [ID, movie] per photo
  iIdx,         \* index of the current item in the pool
  iTrace,       \* the steps taken so far: records [item, step, ok]
  iStored       \* the photo ids UpdatePhotoAIDescription has written

itemVars == <<iPc, iPhotos, iIdx, iTrace, iStored>>

VARIABLES
  \* ---- one websocket connection: the receive loop and the job tasks writing to it
  nOpen,        \* the receive loop is running and the connection is not closed
  nJob          \* the job tasks started on the connection, one record each

connVars == <<nOpen, nJob>>

VARIABLES
  \* ---- Cache.Save followed by Cache.Load into a fresh Cache
  qPc,          \* "setting" | "saved" | "entries" | "loaded" | "failed"
  qCache,       \* Cache.suggestions of the cache that is filled and saved
  qSets,        \* number of Set calls made
  qFile,        \* the file at the cache path: [exists, doc]
  qPending,     \* Load: the parsed entries not yet stored
  qLoaded       \* Cache.suggestions of the fresh cache

tripVars == <<qPc, qCache, qSets, qFile, qPending, qLoaded>>

vars == <<retryVars, albumVars, generateVars, suggestVars, jobVars,
          variantVars, startupVars, thinkVars, scopeVars, itemVars, connVars, tripVars>>

\* what an action of one component leaves alone: the other components
notRetryVars == <<albumVars, generateVars, suggestVars, jobVars,
  variantVars, startupVars, thinkVars, scopeVars, itemVars, connVars, tripVars>>
notAlbumVars == <<retryVars, generateVars, suggestVars, jobVars,
  variantVars, startupVars, thinkVars, scopeVars, itemVars, connVars, tripVars>>
notGenerateVars == <<retryVars, albumVars, suggestVars, jobVars,
  variantVars, startupVars, thinkVars, scopeVars, itemVars, connVars, tripVars>>
notSuggestVars == <<retryVars, albumVars, generateVars, jobVars,
  variantVars, startupVars, thinkVars, scopeVars, itemVars, connVars, tripVars>>
notJobVars == <<retryVars, albumVars, generateVars, suggestVars,
  variantVars, startupVars, thinkVars, scopeVars, itemVars, connVars, tripVars>>
notVariantVars == <<retryVars, albumVars, generateVars, suggestVars, jobVars,
  startupVars, thinkVars, scopeVars, itemVars, connVars, tripVars>>
notStartupVars == <<retryVars, albumVars, generateVars, suggestVars, jobVars,
  variantVars, thinkVars, scopeVars, itemVars, connVars, tripVars>>
notThinkVars == <<retryVars, albumVars, generateVars, suggestVars, jobVars, variantVars, startupVars, scopeVars, itemVars, connVars, tripVars>>
notScopeVars == <<retryVars, albumVars, generateVars, suggestVars, jobVars, variantVars, startupVars, thinkVars, itemVars, connVars, tripVars>>
notItemVars == <<retryVars, albumVars, generateVars, suggestVars, jobVars, variantVars, startupVars, thinkVars, scopeVars, connVars, tripVars>>
notConnVars == <<retryVars, albumVars, generateVars, suggestVars, jobVars, variantVars, startupVars, thinkVars, scopeVars, itemVars, tripVars>>
notTripVars == <<retryVars, albumVars, generateVars, suggestVars, jobVars, variantVars, startupVars, thinkVars, scopeVars, itemVars, connVars>>

(***************************************************************************)
(* Text helpers                                                            *)
(***************************************************************************)
SP == " "
NL == "\n"

IsSpace(tok) == tok \in {SP, NL}

RECURSIVE TrimLeft(_)
TrimLeft(s) ==
  IF s = <<>> THEN s
  ELSE IF IsSpace(Head(s)) THEN TrimLeft(Tail(s)) ELSE s

RECURSIVE TrimRight(_)
TrimRight(s) ==
  IF s = <<>> THEN s
  ELSE IF IsSpace(s[Len(s)]) THEN TrimRight(SubSeq(s, 1, Len(s) - 1)) ELSE s

\* strings.TrimSpace
TrimSpace(s) == TrimRight(TrimLeft(s))

RECURSIVE Concat(_)
\* the text a strings.Builder holds after WriteString of each fragment in turn
Concat(frags) ==
  IF frags = <<>> THEN <<>> ELSE Head(frags) \o Concat(Tail(frags))

(***************************************************************************)
(* Client.generateWithRetry: retry.Do(f, Attempts(retryAttempts), ...)     *)
(***************************************************************************)
retryAttempts == 3

\* the response fragments one streamed completion may deliver
MaxFragments == 2
FragmentTexts == { <<SP, "Hello">>, <<"World", SP>>, <<NL>> }
FragmentSeqs ==
  UNION { [1..k -> FragmentTexts] : k \in 0..MaxFragments }

InitRetry ==
  /\ rPc = "ready"
  /\ rN = 0
  /\ rResponse = <<>>
  /\ rHistory = <<>>
  /\ rResult = [text |-> <<>>, err |-> FALSE]

IdleRetry ==
  /\ rPc = "idle"
  /\ rN = 0
  /\ rResponse = <<>>
  /\ rHistory = <<>>
  /\ rResult = [text |-> <<>>, err |-> FALSE]

\* retry.Do's loop condition: another attempt is made while n < attempts
RetryLoopGuardOffByOne(n) == n <= retryAttempts
RetryLoopGuard(n) == n < retryAttempts
\* the same without the Reset: the fragments are written after what the
\* builder held
AttemptResponseNoReset(prev, frags) == prev \o Concat(frags)

\* what the retried closure leaves in the builder: Reset, then one WriteString
\* per fragment the callback received
AttemptResponse(prev, frags) == Concat(frags)

\* generateWithRetry is called
RetryStart ==
  /\ UNCHANGED notRetryVars
  /\ rPc = "ready"
  /\ rPc' = "running"
  /\ UNCHANGED <<rN, rResponse, rHistory, rResult>>

\* one attempt that fails: client.Generate returns an error, possibly after
\* some fragments were delivered; retry.Do goes on unless it was the last one
RetryAttemptFails ==
  /\ UNCHANGED notRetryVars
  /\ rPc = "running"
  /\ RetryLoopGuard(rN)
  /\ \E frags \in FragmentSeqs :
       /\ rResponse' = AttemptResponse(rResponse, frags)
       /\ rHistory' = Append(rHistory, [frags |-> frags, ok |-> FALSE])
  /\ rN' = rN + 1
  /\ IF RetryLoopGuard(rN + 1)
       THEN /\ rPc' = "running"
            /\ UNCHANGED rResult
       ELSE /\ rPc' = "failed"
            /\ rResult' = [text |-> <<>>, err |-> TRUE]

\* one attempt that succeeds: retry.Do returns nil at once
RetryAttemptSucceeds ==
  /\ UNCHANGED notRetryVars
  /\ rPc = "running"
  /\ RetryLoopGuard(rN)
  /\ \E frags \in FragmentSeqs :
       /\ rResponse' = AttemptResponse(rResponse, frags)
       /\ rHistory' = Append(rHistory, [frags |-> frags, ok |-> TRUE])
       /\ rResult' = [text |-> TrimSpace(AttemptResponse(rResponse, frags)),
                      err |-> FALSE]
  /\ rN' = rN + 1
  /\ rPc' = "done"

NextRetry ==
  \/ RetryStart
  \/ RetryAttemptFails
  \/ RetryAttemptSucceeds

(***************************************************************************)
(* removeThinkTags                                                         *)
(***************************************************************************)
THINK == "<think>"
ENDTHINK == "</think>"

\* index of the first occurrence of tok in s at or after position from; 0 if none
RECURSIVE IndexFrom(_, _, _)
IndexFrom(s, tok, from) ==
  IF from > Len(s) THEN 0
  ELSE IF s[from] = tok THEN from ELSE IndexFrom(s, tok, from + 1)

\* regexp (?s)<think>.*?</think> replaced by "": every leftmost, shortest block
RECURSIVE RemoveThinkBlocks(_)
RemoveThinkBlocks(s) ==
  LET i == IndexFrom(s, THINK, 1)
      j == IF i = 0 THEN 0 ELSE IndexFrom(s, ENDTHINK, i + 1)
  IN IF i = 0 \/ j = 0 THEN s
     ELSE SubSeq(s, 1, i - 1) \o RemoveThinkBlocks(SubSeq(s, j + 1, Len(s)))

\* regexp <think>.* replaced by "": "." does not match a newline, so each
\* remaining <think> is cut up to the end of its line
RECURSIVE RemoveOpenThink(_)
RemoveOpenThink(s) ==
  LET i == IndexFrom(s, THINK, 1)
      k == IF i = 0 THEN 0 ELSE IndexFrom(s, NL, i + 1)
  IN IF i = 0 THEN s
     ELSE IF k = 0 THEN SubSeq(s, 1, i - 1)
     ELSE SubSeq(s, 1, i - 1) \o RemoveOpenThink(SubSeq(s, k, Len(s)))

removeThinkTags(text) == TrimSpace(RemoveOpenThink(RemoveThinkBlocks(text)))

(***************************************************************************)
(* Dates: time.Time.Format("2006-01-02") and Go's string comparison        *)
(***************************************************************************)
Digit(k) == <<"0", "1", "2", "3", "4", "5", "6", "7", "8", "9">>[k + 1]

\* the byte value of a character of a formatted date
Code(c) ==
  CASE c = "-" -> 45
    [] c = "0" -> 48 [] c = "1" -> 49 [] c = "2" -> 50 [] c = "3" -> 51
    [] c = "4" -> 52 [] c = "5" -> 53 [] c = "6" -> 54 [] c = "7" -> 55
    [] c = "8" -> 56 [] c = "9" -> 57

Pad2(k) == << Digit((k \div 10) % 10), Digit(k % 10) >>
Pad4(k) == << Digit((k \div 1000) % 10), Digit((k \div 100) % 10),
              Digit((k \div 10) % 10), Digit(k % 10) >>

\* t.Format("2006-01-02") for a year of four digits
FormatDate(t) == Pad4(t.y) \o <<"-">> \o Pad2(t.m) \o <<"-">> \o Pad2(t.d)

\* Go's a < b on strings: bytewise lexicographic order
RECURSIVE StrLess(_, _)
StrLess(a, b) ==
  IF b = <<>> THEN FALSE
  ELSE IF a = <<>> THEN TRUE
  ELSE IF Code(Head(a)) < Code(Head(b)) THEN TRUE
  ELSE IF Code(Head(a)) > Code(Head(b)) THEN FALSE
  ELSE StrLess(Tail(a), Tail(b))

UnknownDate == <<"Unknown">>

\* the loops of getMinDate and getMaxDate keep the first least (greatest)
\* element met; the same element is found here by halves of the index range,
\* the left half taking precedence, so that evaluation stays shallow
RECURSIVE MinOver(_, _, _)
MinOver(dates, lo, hi) ==
  IF lo = hi THEN dates[lo]
  ELSE LET mid == (lo + hi) \div 2
           left == MinOver(dates, lo, mid)
           right == MinOver(dates, mid + 1, hi)
       IN IF StrLess(right, left) THEN right ELSE left

RECURSIVE MaxOver(_, _, _)
MaxOver(dates, lo, hi) ==
  IF lo = hi THEN dates[lo]
  ELSE LET mid == (lo + hi) \div 2
           left == MaxOver(dates, lo, mid)
           right == MaxOver(dates, mid + 1, hi)
       IN IF StrLess(left, right) THEN right ELSE left

getMinDate(dates) ==
  IF Len(dates) = 0 THEN UnknownDate ELSE MinOver(dates, 1, Len(dates))

getMaxDate(dates) ==
  IF Len(dates) = 0 THEN UnknownDate ELSE MaxOver(dates, 1, Len(dates))

(***************************************************************************)
(* Client.GenerateAlbumDescription, extractPhotoData,                      *)
(* compactDescriptionsHierarchically, compressBatchDescriptions            *)
(***************************************************************************)
maxDescriptionsBeforeCompaction == 30

NoString == [Valid |-> FALSE, String |-> <<>>]
ZeroTime == [y |-> 1, m |-> 1, d |-> 1]
NoTime == [Valid |-> FALSE, Time |-> ZeroTime]

\* the member photos a call is given: photo i of the list is of kind
\* base[i], the base repeated as often as the list is long
TakenTimes == { [y |-> 2023, m |-> 12, d |-> 31], [y |-> 2024, m |-> 1, d |-> 15] }
CreatedTimes == { [y |-> 2024, m |-> 2, d |-> 1], [y |-> 2024, m |-> 3, d |-> 1] }
PhotoKinds ==
  [ desc : BOOLEAN,
    TakenAt : {NoTime} \cup { [Valid |-> TRUE, Time |-> t] : t \in TakenTimes },
    CreatedAt : CreatedTimes ]

KindP1 == [desc |-> TRUE, TakenAt |-> NoTime,
           CreatedAt |-> [y |-> 2024, m |-> 3, d |-> 1]]
KindP2 == [desc |-> TRUE,
           TakenAt |-> [Valid |-> TRUE, Time |-> [y |-> 2024, m |-> 1, d |-> 15]],
           CreatedAt |-> [y |-> 2024, m |-> 2, d |-> 1]]
KindUndescribed == [desc |-> FALSE,
           TakenAt |-> [Valid |-> TRUE, Time |-> [y |-> 2023, m |-> 12, d |-> 31]],
           CreatedAt |-> [y |-> 2024, m |-> 2, d |-> 1]]

MaxSmallAlbum == 2
MaxRun == 62
SmallBases == UNION { [1..k -> PhotoKinds] : k \in 0..MaxSmallAlbum }
LargeBases == { <<KindP1, KindP2>>, <<KindP2, KindUndescribed, KindP1>> }
LargeCounts == (MaxSmallAlbum + 1)..MaxRun
\* list lengths around the square of the batch size, where a second level starts
SquareCounts ==
  { maxDescriptionsBeforeCompaction * maxDescriptionsBeforeCompaction + k :
      k \in {0, 1, maxDescriptionsBeforeCompaction, maxDescriptionsBeforeCompaction + 1} }

AlbumInputs ==
  { [entry |-> "GenerateAlbumDescription", base |-> b, n |-> Len(b)] :
      b \in SmallBases }
    \cup { [entry |-> "GenerateAlbumDescription", base |-> b, n |-> n] :
             b \in LargeBases, n \in LargeCounts }
CompactInputs ==
  { [entry |-> "compactDescriptionsHierarchically", base |-> <<KindP1>>, n |-> n] :
      n \in (0..MaxSmallAlbum) \cup LargeCounts \cup SquareCounts }

PhotoAt(base, i) ==
  LET k == base[((i - 1) % Len(base)) + 1]
  IN [ ID |-> i,
       AIDescription |-> IF k.desc THEN [Valid |-> TRUE, String |-> <<"photo", i>>]
                                   ELSE NoString,
       TakenAt |-> k.TakenAt,
       CreatedAt |-> k.CreatedAt ]

PhotosOf(input) == [i \in 1..input.n |-> PhotoAt(input.base, i)]

\* extractPhotoData: taken_at if available, otherwise created_at
EffectiveDateCreatedOnly(photo) == FormatDate(photo.CreatedAt)
EffectiveDate(photo) ==
  IF photo.TakenAt.Valid THEN FormatDate(photo.TakenAt.Time)
                         ELSE FormatDate(photo.CreatedAt)

\* extractPhotoData: the descriptions of the photos that have one, in order
ExtractDescriptions(photos) ==
  LET described == SelectSeq(photos, LAMBDA p : p.AIDescription.Valid)
  IN [i \in 1..Len(described) |-> described[i].AIDescription.String]
ExtractDatesDescribedOnly(photos) ==
  LET described == SelectSeq(photos, LAMBDA p : p.AIDescription.Valid)
  IN [i \in 1..Len(described) |-> EffectiveDate(described[i])]

\* extractPhotoData: one date per photo, in order
ExtractDates(photos) == [i \in 1..Len(photos) |-> EffectiveDate(photos[i])]

\* the date-range sentence GenerateAlbumDescription appends
SuffixLead == " The album contains photos from dates "
DateRangeText(minDate, maxDate) ==
  <<SuffixLead>> \o minDate \o <<" to ">> \o maxDate \o <<".">>

AppendDateRangeSwapped(text, dates) ==
  IF Len(dates) > 0
    THEN text \o DateRangeText(getMaxDate(dates), getMinDate(dates))
    ELSE text
AppendDateRange(text, dates) ==
  IF Len(dates) > 0
    THEN text \o DateRangeText(getMinDate(dates), getMaxDate(dates))
    ELSE text

\* compactDescriptionsHierarchically: the early return
CompactIsIdentityStrict(descriptions) ==
  Len(descriptions) < maxDescriptionsBeforeCompaction
CompactIsIdentity(descriptions) ==
  Len(descriptions) <= maxDescriptionsBeforeCompaction

\* compactDescriptionsHierarchically: the batches, i stepping by the batch size
Min(a, b) == IF a < b THEN a ELSE b
\* the same with the count taken as the quotient plus one
NumBatchesQuotientPlusOne(len) == len \div maxDescriptionsBeforeCompaction + 1

NumBatches(len) ==
  (len + maxDescriptionsBeforeCompaction - 1) \div maxDescriptionsBeforeCompaction
\* the same with the whole list in one batch
BatchesUnsplit(descriptions) == <<descriptions>>

Batches(descriptions) ==
  [k \in 1..NumBatches(Len(descriptions)) |->
     SubSeq(descriptions,
            (k - 1) * maxDescriptionsBeforeCompaction + 1,
            Min(k * maxDescriptionsBeforeCompaction, Len(descriptions)))]

\* compactDescriptionsHierarchically: "still too many compressed batches"
NeedsAnotherLevelNever(compressed) == FALSE
\* the same with the recursion taken only above twice the batch size
NeedsAnotherLevelAboveTwice(compressed) ==
  Len(compressed) > 2 * maxDescriptionsBeforeCompaction

NeedsAnotherLevel(compressed) == Len(compressed) > maxDescriptionsBeforeCompaction

\* what compressBatchDescriptions returns for a batch: the model's summary of it
Summary(batch) == <<"summary", batch>>

\* the completions the synthesis model may give (as generateWithRetry returns them)
SynthCompletions ==
  { <<"Summary">>, <<>>, <<THINK, "plan", ENDTHINK, SP, "Summary">> }

NoResult == [text |-> <<>>, list |-> <<>>, err |-> ""]
NoCalls == [compress |-> 0, synth |-> 0]

InitAlbum ==
  /\ aPc = "ready"
  /\ aInput \in AlbumInputs \cup CompactInputs
  /\ aDescs = <<>>
  /\ aDates = <<>>
  /\ cDescs = <<>>
  /\ cBatches = <<>>
  /\ cCompressed = <<>>
  /\ cLevel = 0
  /\ aCompacted = <<>>
  /\ aCalls = NoCalls
  /\ aResult = NoResult

IdleAlbum ==
  /\ aPc = "idle"
  /\ aInput = [entry |-> "none", base |-> <<>>, n |-> 0]
  /\ aDescs = <<>>
  /\ aDates = <<>>
  /\ cDescs = <<>>
  /\ cBatches = <<>>
  /\ cCompressed = <<>>
  /\ cLevel = 0
  /\ aCompacted = <<>>
  /\ aCalls = NoCalls
  /\ aResult = NoResult

\* GenerateAlbumDescription up to the compaction decision
AlbumExtract ==
  /\ UNCHANGED notAlbumVars
  /\ aPc = "ready"
  /\ aInput.entry = "GenerateAlbumDescription"
  /\ LET photos == PhotosOf(aInput)
         descs == ExtractDescriptions(photos)
     IN /\ aDescs' = descs
        /\ aDates' = ExtractDates(photos)
        /\ IF Len(descs) = 0
             THEN /\ aPc' = "error"
                  /\ aResult' = [NoResult EXCEPT !.err = "no photo descriptions available"]
                  /\ UNCHANGED <<cDescs, aCompacted>>
             ELSE IF Len(descs) > maxDescriptionsBeforeCompaction
               THEN /\ aPc' = "compact"
                    /\ cDescs' = descs
                    /\ UNCHANGED <<aCompacted, aResult>>
               ELSE /\ aPc' = "synth"
                    /\ aCompacted' = descs
                    /\ UNCHANGED <<cDescs, aResult>>
  /\ UNCHANGED <<aInput, cBatches, cCompressed, cLevel, aCalls>>

\* compactDescriptionsHierarchically called directly on a list of strings
CompactCall ==
  /\ UNCHANGED notAlbumVars
  /\ aPc = "ready"
  /\ aInput.entry = "compactDescriptionsHierarchically"
  /\ aPc' = "compact"
  /\ cDescs' = ExtractDescriptions(PhotosOf(aInput))
  /\ UNCHANGED <<aInput, aDescs, aDates, cBatches, cCompressed, cLevel,
                 aCompacted, aCalls, aResult>>

\* compactDescriptionsHierarchically returns `list` without error
CompactReturns(list) ==
  IF aInput.entry = "GenerateAlbumDescription"
    THEN /\ aPc' = "synth"
         /\ aCompacted' = list
         /\ UNCHANGED aResult
    ELSE /\ aPc' = "done"
         /\ aResult' = [NoResult EXCEPT !.list = list]
         /\ UNCHANGED aCompacted

\* entry of compactDescriptionsHierarchically (also of its recursive call)
CompactEnter ==
  /\ UNCHANGED notAlbumVars
  /\ aPc = "compact"
  /\ IF CompactIsIdentity(cDescs)
       THEN /\ CompactReturns(cDescs)
            /\ UNCHANGED <<cBatches, cCompressed, cLevel>>
       ELSE /\ aPc' = "compress"
            /\ cBatches' = Batches(cDescs)
            /\ cCompressed' = <<>>
            /\ cLevel' = cLevel + 1
            /\ UNCHANGED <<aCompacted, aResult>>
  /\ UNCHANGED <<aInput, aDescs, aDates, cDescs, aCalls>>

\* compressBatchDescriptions succeeds for the next batch
CompressBatchOk ==
  /\ UNCHANGED notAlbumVars
  /\ aPc = "compress"
  /\ Len(cCompressed) < Len(cBatches)
  /\ cCompressed' = Append(cCompressed, Summary(cBatches[Len(cCompressed) + 1]))
  /\ aCalls' = [aCalls EXCEPT !.compress = @ + 1]
  /\ UNCHANGED <<aPc, aInput, aDescs, aDates, cDescs, cBatches, cLevel,
                 aCompacted, aResult>>
\* the same with the failed batch passed over: the loop goes on with an empty
\* summary in the batch's place
CompressBatchFailsSkipsBatch ==
  /\ UNCHANGED notAlbumVars
  /\ aPc = "compress"
  /\ Len(cCompressed) < Len(cBatches)
  /\ cCompressed' = Append(cCompressed, <<>>)
  /\ aCalls' = [aCalls EXCEPT !.compress = @ + 1]
  /\ UNCHANGED <<aPc, aInput, aDescs, aDates, cDescs, cBatches, cLevel,
                 aCompacted, aResult>>

\* compressBatchDescriptions fails for the next batch: compaction returns the
\* error, and so does GenerateAlbumDescription
CompressBatchFails ==
  /\ UNCHANGED notAlbumVars
  /\ aPc = "compress"
  /\ Len(cCompressed) < Len(cBatches)
  /\ aCalls' = [aCalls EXCEPT !.compress = @ + 1]
  /\ aPc' = "error"
  /\ aResult' = [NoResult EXCEPT !.err =
                   IF aInput.entry = "GenerateAlbumDescription"
                     THEN "failed to compact descriptions"
                     ELSE "failed to compress batch"]
  /\ UNCHANGED <<aInput, aDescs, aDates, cDescs, cBatches, cCompressed, cLevel,
                 aCompacted>>

\* every batch of the level is compressed: recurse, or return the summaries
CompactLevelEnd ==
  /\ UNCHANGED notAlbumVars
  /\ aPc = "compress"
  /\ Len(cCompressed) = Len(cBatches)
  /\ IF NeedsAnotherLevel(cCompressed)
       THEN /\ aPc' = "compact"
            /\ cDescs' = cCompressed
            /\ UNCHANGED <<aCompacted, aResult>>
       ELSE /\ CompactReturns(cCompressed)
            /\ UNCHANGED cDescs
  /\ UNCHANGED <<aInput, aDescs, aDates, cBatches, cCompressed, cLevel, aCalls>>

\* the synthesis call succeeds: think tags removed, date range appended
AlbumSynthOk ==
  /\ UNCHANGED notAlbumVars
  /\ aPc = "synth"
  /\ \E completion \in SynthCompletions :
       aResult' = [NoResult EXCEPT
                     !.text = AppendDateRange(removeThinkTags(completion), aDates)]
  /\ aCalls' = [aCalls EXCEPT !.synth = @ + 1]
  /\ aPc' = "done"
  /\ UNCHANGED <<aInput, aDescs, aDates, cDescs, cBatches, cCompressed, cLevel,
                 aCompacted>>

\* the synthesis call fails after its retries
AlbumSynthFails ==
  /\ UNCHANGED notAlbumVars
  /\ aPc = "synth"
  /\ aCalls' = [aCalls EXCEPT !.synth = @ + 1]
  /\ aPc' = "error"
  /\ aResult' = [NoResult EXCEPT !.err = "failed to generate album description"]
  /\ UNCHANGED <<aInput, aDescs, aDates, cDescs, cBatches, cCompressed, cLevel,
                 aCompacted>>

NextAlbum ==
  \/ AlbumExtract
  \/ CompactCall
  \/ CompactEnter
  \/ CompressBatchOk
  \/ CompressBatchFails
  \/ CompactLevelEnd
  \/ AlbumSynthOk
  \/ AlbumSynthFails

(***************************************************************************)
(* Client.GenerateAlbumSuggestions                                         *)
(***************************************************************************)
\* the top-level albums of the database that are neither blocked nor unpinned
\* under pinned_only, ordered by title, each with or without a description
SuggestAlbumIds == <<"a1", "a2">>
AlbumRecord(id, described) ==
  [ ID |-> id,
    AIDescription |-> IF described THEN [Valid |-> TRUE, String |-> <<"album", id>>]
                                   ELSE NoString ]
AlbumLists ==
  { [i \in 1..Len(SuggestAlbumIds) |-> AlbumRecord(SuggestAlbumIds[i], d[i])] :
      d \in [1..Len(SuggestAlbumIds) -> BOOLEAN] }

\* the unsorted photos of the database: p1 and p4 are described, p2 is not;
\* p3 is in an album and so is not among them
UnsortedPhotos ==
  << [ID |-> "p1", AIDescription |-> [Valid |-> TRUE, String |-> <<"photo", "p1">>]],
     [ID |-> "p2", AIDescription |-> NoString],
     [ID |-> "p4", AIDescription |-> [Valid |-> TRUE, String |-> <<"photo", "p4">>]] >>

\* what the inference operation gives back: it fails after its retries, or it
\* returns text that is not the JSON asked for, or JSON whose album_ids holds
\* listed ids, repeated ids and ids the model invented
MaxIds == 5
ResponseIds == {"a1", "a2", "zz"}
InferenceFails == [fails |-> TRUE, parses |-> FALSE, album_ids |-> <<>>]
Unparsable == [fails |-> FALSE, parses |-> FALSE, album_ids |-> <<>>]
Answer(ids) == [fails |-> FALSE, parses |-> TRUE, album_ids |-> ids]
ModelAnswers ==
  {InferenceFails, Unparsable}
    \cup { Answer(ids) : ids \in UNION { [1..k -> ResponseIds] : k \in 0..MaxIds } }

\* GenerateAlbumSuggestions: the prompt lines, one per album with a description
AlbumDescs(albums) == SelectSeq(albums, LAMBDA a : a.AIDescription.Valid)

\* GenerateAlbumSuggestions: validAlbumIDs
ValidAlbumIDs(albums) == { albums[i].ID : i \in 1..Len(albums) }

\* GenerateAlbumSuggestions: the filter loop over jsonResponse.AlbumIDs
RECURSIVE FilterLoop(_, _, _)
FilterLoop(suggestions, ids, valid) ==
  IF ids = <<>> THEN suggestions
  ELSE IF Head(ids) \in valid
    THEN IF Len(suggestions) + 1 >= 3
           THEN Append(suggestions, Head(ids))
           ELSE FilterLoop(Append(suggestions, Head(ids)), Tail(ids), valid)
    ELSE FilterLoop(suggestions, Tail(ids), valid)

FilterSuggestionsUnchecked(ids, valid) == ids
\* the same with the cap applied to the model's list before the check
FilterSuggestionsCappedFirst(ids, valid) ==
  SelectSeq(SubSeq(ids, 1, IF Len(ids) < 3 THEN Len(ids) ELSE 3), LAMBDA id : id \in valid)

FilterSuggestions(ids, valid) == FilterLoop(<<>>, ids, valid)
\* the same without the check of the photo's description
GenerateAlbumSuggestionsUnguarded(photo, albums, answer) ==
  IF Len(AlbumDescs(albums)) = 0
    THEN [suggestions |-> <<>>, err |-> "no album descriptions", calls |-> 0]
  ELSE IF answer.fails
    THEN [suggestions |-> <<>>, err |-> "failed to generate", calls |-> 1]
  ELSE IF ~answer.parses
    THEN [suggestions |-> <<>>, err |-> "failed to parse", calls |-> 1]
  ELSE [ suggestions |-> FilterSuggestions(answer.album_ids, ValidAlbumIDs(albums)),
         err |-> "", calls |-> 1 ]

\* GenerateAlbumSuggestions(photo, albums), given what the inference operation
\* gives back if it is called: the list, the error, the inference calls made
GenerateAlbumSuggestions(photo, albums, answer) ==
  IF Len(AlbumDescs(albums)) = 0
    THEN [suggestions |-> <<>>, err |-> "no album descriptions", calls |-> 0]
  ELSE IF ~photo.AIDescription.Valid
    THEN [suggestions |-> <<>>, err |-> "photo has no AI description", calls |-> 0]
  ELSE IF answer.fails
    THEN [suggestions |-> <<>>, err |-> "failed to generate", calls |-> 1]
  ELSE IF ~answer.parses
    THEN [suggestions |-> <<>>, err |-> "failed to parse", calls |-> 1]
  ELSE [ suggestions |-> FilterSuggestions(answer.album_ids, ValidAlbumIDs(albums)),
         err |-> "", calls |-> 1 ]

NoSuggestions == [suggestions |-> <<>>, err |-> "", calls |-> 0]

\* the album lists a call may be given: both albums, one, or none
SuppliedAlbumLists ==
  AlbumLists
    \cup { <<AlbumRecord("a1", d)>> : d \in BOOLEAN }
    \cup { <<>> }

InitGenerate ==
  /\ gPc = "ready"
  /\ gPhoto \in { UnsortedPhotos[i] : i \in 1..Len(UnsortedPhotos) }
  /\ gAlbums \in SuppliedAlbumLists
  /\ gAnswer \in ModelAnswers
  /\ gResult = NoSuggestions

IdleGenerate ==
  /\ gPc = "idle"
  /\ gPhoto = [ID |-> "", AIDescription |-> NoString]
  /\ gAlbums = <<>>
  /\ gAnswer = InferenceFails
  /\ gResult = NoSuggestions

\* the call returns an error
GenerateSuggestionsFails ==
  /\ UNCHANGED notGenerateVars
  /\ gPc = "ready"
  /\ GenerateAlbumSuggestions(gPhoto, gAlbums, gAnswer).err # ""
  /\ gResult' = GenerateAlbumSuggestions(gPhoto, gAlbums, gAnswer)
  /\ gPc' = "error"
  /\ UNCHANGED <<gPhoto, gAlbums, gAnswer>>

\* the call returns a list
GenerateSuggestionsReturns ==
  /\ UNCHANGED notGenerateVars
  /\ gPc = "ready"
  /\ GenerateAlbumSuggestions(gPhoto, gAlbums, gAnswer).err = ""
  /\ gResult' = GenerateAlbumSuggestions(gPhoto, gAlbums, gAnswer)
  /\ gPc' = "done"
  /\ UNCHANGED <<gPhoto, gAlbums, gAnswer>>

NextGenerate ==
  \/ GenerateSuggestionsFails
  \/ GenerateSuggestionsReturns

(***************************************************************************)
(* Cache (internal/cache), Server.handlePhotoSuggestions                   *)
(***************************************************************************)
\* Cache.Get: the stored list and whether the map holds the photo id
CacheGet(cache, photoID) ==
  IF photoID \in DOMAIN cache
    THEN [val |-> cache[photoID], found |-> TRUE]
    ELSE [val |-> <<>>, found |-> FALSE]
\* the same with the write left out
CacheSetDropped(cache, photoID, suggestions) == cache

\* Cache.Set
CacheSet(cache, photoID, suggestions) ==
  [id \in DOMAIN cache \cup {photoID} |->
     IF id = photoID THEN suggestions ELSE cache[id]]

EmptyCache == [id \in {} |-> <<>>]

RequestPhotoIds == {"p1", "p2", "p3", "p4"}

\* the cache as Load leaves it at startup: empty, or with an entry of an earlier
\* run (one names a3, an album that is no longer listed; one is an empty list)
StartupCaches ==
  { EmptyCache,
    [id \in {"p1"} |-> <<"a3", "a1">>],
    [id \in {"p1"} |-> <<>>] }

\* what the inference operation gives back to the requests served
RequestAnswers ==
  { InferenceFails, Unparsable,
    Answer(<<>>),
    Answer(<<"a1">>),
    Answer(<<"a2", "a1">>),
    Answer(<<"zz", "a2">>),
    Answer(<<"a1", "zz", "a2", "a1", "a2">>) }

\* handlePhotoSuggestions: the target photo among the unsorted photos
FindPhoto(photos, photoID) ==
  SelectSeq(photos, LAMBDA ph : ph.ID = photoID)

\* handlePhotoSuggestions: the response loop over the suggestions
RECURSIVE ResponseLoop(_, _, _)
ResponseLoop(out, suggestions, albumIds) ==
  IF suggestions = <<>> THEN out
  ELSE LET out2 == IF Head(suggestions) \in albumIds
                     THEN Append(out, Head(suggestions)) ELSE out
       IN IF Len(out2) >= 3 THEN out2
          ELSE ResponseLoop(out2, Tail(suggestions), albumIds)

Requests == {"r1", "r2"}

\* one request: where its handler stands, its locals, the inference calls it
\* made and whether the map held its photo id when it asked
NoRequest ==
  [ pc |-> "idle", photoID |-> "", hadEntry |-> FALSE, cached |-> FALSE,
    albums |-> <<>>, suggestions |-> <<>>, calls |-> 0,
    status |-> 0, response |-> <<>> ]

InitSuggest ==
  /\ sCache \in StartupCaches
  /\ sFile = IF sCache = EmptyCache
               THEN [exists |-> FALSE, content |-> EmptyCache]
               ELSE [exists |-> TRUE, content |-> sCache]
  /\ sAlbums \in AlbumLists
  /\ sReq = [r \in Requests |-> NoRequest]

IdleSuggest ==
  /\ sCache = EmptyCache
  /\ sFile = [exists |-> FALSE, content |-> EmptyCache]
  /\ sAlbums = <<>>
  /\ sReq = [r \in {} |-> NoRequest]

\* the map has no lock: a request inside Set is writing it
Writing(r) == sReq[r].pc = "setting"
OthersWriting(r) == \E w \in Requests \ {r} : Writing(w)

\* the map as it may look to an access that overlaps the writes in progress
RacingMaps(r) ==
  {sCache} \cup { CacheSet(sCache, sReq[w].photoID, sReq[w].suggestions) :
                    w \in { x \in Requests \ {r} : Writing(x) } }

\* a lookup that overlaps a write is a data race: it may see the map before or
\* after the write, or miss an entry the map holds
RacingGet(r, photoID) ==
  { CacheGet(m, photoID) : m \in RacingMaps(r) }
    \cup { [val |-> <<>>, found |-> FALSE] }

\* what the handler does with the result of the lookup
AfterGet(r, photoID, got) ==
  sReq' = [sReq EXCEPT
             ![r].photoID = photoID,
             ![r].hadEntry = photoID \in DOMAIN sCache,
             ![r].cached = got.found,
             ![r].suggestions = got.val,
             ![r].pc = IF got.found THEN "respond" ELSE "listAlbums"]

\* the handler returns: its locals are gone, the status and the body stay
Finish(r, code, body, calls) ==
  sReq' = [sReq EXCEPT ![r] = [NoRequest EXCEPT
                                 !.pc = "done",
                                 !.photoID = sReq[r].photoID,
                                 !.hadEntry = sReq[r].hadEntry,
                                 !.cached = sReq[r].cached,
                                 !.calls = calls,
                                 !.status = code,
                                 !.response = body]]

\* the request ends with an HTTP error
Fail(r, code) == Finish(r, code, <<>>, sReq[r].calls)

\* a GET with a photo_id arrives; the cache is asked first
SuggestStart(r) ==
  /\ UNCHANGED notSuggestVars
  /\ sReq[r].pc = "idle"
  /\ ~OthersWriting(r)
  /\ \E photoID \in RequestPhotoIds :
       AfterGet(r, photoID, CacheGet(sCache, photoID))
  /\ UNCHANGED <<sCache, sFile, sAlbums>>

\* the same, while another request is inside Set
SuggestStartRacing(r) ==
  /\ UNCHANGED notSuggestVars
  /\ sReq[r].pc = "idle"
  /\ OthersWriting(r)
  /\ \E photoID \in RequestPhotoIds :
       \E got \in RacingGet(r, photoID) : AfterGet(r, photoID, got)
  /\ UNCHANGED <<sCache, sFile, sAlbums>>

\* cache miss: GetTopLevelAlbums
SuggestListAlbums(r) ==
  /\ UNCHANGED notSuggestVars
  /\ sReq[r].pc = "listAlbums"
  /\ sReq' = [sReq EXCEPT ![r].albums = sAlbums, ![r].pc = "listPhotos"]
  /\ UNCHANGED <<sCache, sFile, sAlbums>>

SuggestListAlbumsFails(r) ==
  /\ UNCHANGED notSuggestVars
  /\ sReq[r].pc = "listAlbums"
  /\ Fail(r, 500)
  /\ UNCHANGED <<sCache, sFile, sAlbums>>

\* cache miss: GetUnsortedPhotos and the search for the target photo
SuggestFindPhoto(r) ==
  /\ UNCHANGED notSuggestVars
  /\ sReq[r].pc = "listPhotos"
  /\ IF FindPhoto(UnsortedPhotos, sReq[r].photoID) = <<>>
       THEN Fail(r, 404)
       ELSE sReq' = [sReq EXCEPT ![r].pc = "generate"]
  /\ UNCHANGED <<sCache, sFile, sAlbums>>

SuggestListPhotosFails(r) ==
  /\ UNCHANGED notSuggestVars
  /\ sReq[r].pc = "listPhotos"
  /\ Fail(r, 500)
  /\ UNCHANGED <<sCache, sFile, sAlbums>>

\* cache miss: GenerateAlbumSuggestions(targetPhoto, albums)
SuggestGenerate(r) ==
  /\ UNCHANGED notSuggestVars
  /\ sReq[r].pc = "generate"
  /\ \E answer \in RequestAnswers :
       LET got == GenerateAlbumSuggestions(
                    FindPhoto(UnsortedPhotos, sReq[r].photoID)[1],
                    sReq[r].albums, answer)
       IN IF got.err # ""
            THEN Finish(r, 500, <<>>, sReq[r].calls + got.calls)
            ELSE sReq' = [sReq EXCEPT
                            ![r].calls = @ + got.calls,
                            ![r].suggestions = got.suggestions,
                            ![r].pc = "set"]
  /\ UNCHANGED <<sCache, sFile, sAlbums>>

\* s.cache.Set(photoID, suggestions): the write to the map begins
SuggestCacheSetBegin(r) ==
  /\ UNCHANGED notSuggestVars
  /\ sReq[r].pc = "set"
  /\ sReq' = [sReq EXCEPT ![r].pc = "setting"]
  /\ UNCHANGED <<sCache, sFile, sAlbums>>

\* s.cache.Set(photoID, suggestions): the write to the map is done
SuggestCacheSetEnd(r) ==
  /\ UNCHANGED notSuggestVars
  /\ sReq[r].pc = "setting"
  /\ sCache' = CacheSet(sCache, sReq[r].photoID, sReq[r].suggestions)
  /\ sReq' = [sReq EXCEPT ![r].pc = "save"]
  /\ UNCHANGED <<sFile, sAlbums>>

\* s.cache.Save(): the whole map is written to the file
SuggestCacheSave(r) ==
  /\ UNCHANGED notSuggestVars
  /\ sReq[r].pc = "save"
  /\ ~OthersWriting(r)
  /\ sFile' = [exists |-> TRUE, content |-> sCache]
  /\ sReq' = [sReq EXCEPT ![r].pc = "respond"]
  /\ UNCHANGED <<sCache, sAlbums>>

\* the same, while another request is inside Set: the iteration over the map
\* may or may not see the entry being written
SuggestCacheSaveRacing(r) ==
  /\ UNCHANGED notSuggestVars
  /\ sReq[r].pc = "save"
  /\ OthersWriting(r)
  /\ \E m \in RacingMaps(r) : sFile' = [exists |-> TRUE, content |-> m]
  /\ sReq' = [sReq EXCEPT ![r].pc = "respond"]
  /\ UNCHANGED <<sCache, sAlbums>>

\* s.cache.Save() fails; its error is not looked at
SuggestCacheSaveFails(r) ==
  /\ UNCHANGED notSuggestVars
  /\ sReq[r].pc = "save"
  /\ sReq' = [sReq EXCEPT ![r].pc = "respond"]
  /\ UNCHANGED <<sCache, sFile, sAlbums>>

\* the runtime detects an access to the map that overlaps a write and ends the
\* process ("concurrent map read and map write", "concurrent map writes")
SuggestMapFatal(r) ==
  /\ UNCHANGED notSuggestVars
  /\ sReq[r].pc \in {"idle", "setting", "save"}
  /\ OthersWriting(r)
  /\ sReq' = [x \in Requests |-> [sReq[x] EXCEPT !.pc = "crashed"]]
  /\ UNCHANGED <<sCache, sFile, sAlbums>>

\* GetTopLevelAlbums again, and the response built from the suggestions
SuggestRespond(r) ==
  /\ UNCHANGED notSuggestVars
  /\ sReq[r].pc = "respond"
  /\ Finish(r, 200,
            ResponseLoop(<<>>, sReq[r].suggestions, ValidAlbumIDs(sAlbums)),
            sReq[r].calls)
  /\ UNCHANGED <<sCache, sFile, sAlbums>>

SuggestRespondFails(r) ==
  /\ UNCHANGED notSuggestVars
  /\ sReq[r].pc = "respond"
  /\ Fail(r, 500)
  /\ UNCHANGED <<sCache, sFile, sAlbums>>

NextSuggest ==
  \E r \in Requests :
    \/ SuggestStart(r)
    \/ SuggestStartRacing(r)
    \/ SuggestListAlbums(r)
    \/ SuggestListAlbumsFails(r)
    \/ SuggestFindPhoto(r)
    \/ SuggestListPhotosFails(r)
    \/ SuggestGenerate(r)
    \/ SuggestCacheSetBegin(r)
    \/ SuggestCacheSetEnd(r)
    \/ SuggestCacheSave(r)
    \/ SuggestCacheSaveRacing(r)
    \/ SuggestCacheSaveFails(r)
    \/ SuggestMapFatal(r)
    \/ SuggestRespond(r)
    \/ SuggestRespondFails(r)

(***************************************************************************)
(* Handler (internal/websocket): the batch jobs, and the database calls    *)
(* they make (internal/database)                                           *)
(***************************************************************************)
\* the photos table in the order of the queries (taken_at DESC, created_at
\* DESC): p1 is unsorted, p2 and p3 are in the top-level album a1, p3 is a
\* video, p4 is in the nested album s1; album a2 has no photos
JobPhotoIds == <<"p1", "p2", "p3", "p4">>
TopLevelAlbumIds == <<"a1", "a2">>
NestedAlbumIds == <<"s1">>
IsMovie(p) == p = "p3"
AlbumMembers(a) ==
  IF a = "a1" THEN <<"p2", "p3">> ELSE IF a = "s1" THEN <<"p4">> ELSE <<>>

\* photo_album holds a row (p, a)
InAlbum(p, a) == \E k \in 1..Len(AlbumMembers(a)) : AlbumMembers(a)[k] = p

Described(text) == [Valid |-> TRUE, String |-> text]
EarlierDescription(id) == Described(<<"earlier", id>>)

\* the databases a run starts from: nothing in it; everything described; nothing
\* described; some described; an undescribed photo in a nested album
NoRows == [id \in {} |-> NoString]
StartupDatabases ==
  { [ photos |-> NoRows, albums |-> NoRows ],
    [ photos |-> [p \in {"p1", "p2"} |-> EarlierDescription(p)],
      albums |-> [a \in {"a1", "a2"} |-> EarlierDescription(a)] ],
    [ photos |-> [p \in {"p1", "p2", "p3"} |-> NoString],
      albums |-> [a \in {"a1", "a2"} |-> NoString] ],
    [ photos |-> [p \in {"p1", "p2"} |->
                    IF p = "p2" THEN EarlierDescription(p) ELSE NoString],
      albums |-> [a \in {"a1", "a2"} |->
                    IF a = "a1" THEN EarlierDescription(a) ELSE NoString] ],
    [ photos |-> [p \in {"p1", "p4"} |->
                    IF p = "p1" THEN EarlierDescription(p) ELSE NoString],
      albums |-> [a \in {"a1"} |-> NoString] ] }

\* the same query without its WHERE clause
PhotosIgnoringDescription(photoDesc) ==
  SelectSeq(JobPhotoIds, LAMBDA p : p \in DOMAIN photoDesc)

\* DB.GetPhotosWithoutAIDescription: WHERE _ai_description IS NULL
PhotosWithoutAIDescription(photoDesc) ==
  SelectSeq(JobPhotoIds, LAMBDA p : p \in DOMAIN photoDesc /\ ~photoDesc[p].Valid)

\* DB.GetAllPhotosWithoutAIDescription: WHERE _ai_description IS NULL AND
\* (id NOT IN (SELECT photo_id FROM photo_album) OR id IN (the photos of the
\* albums without a parent))
AllPhotosWithoutAIDescription(photoDesc) ==
  SelectSeq(JobPhotoIds,
            LAMBDA p : /\ p \in DOMAIN photoDesc
                       /\ ~photoDesc[p].Valid
                       /\ \/ \A k \in 1..Len(TopLevelAlbumIds \o NestedAlbumIds) :
                                ~InAlbum(p, (TopLevelAlbumIds \o NestedAlbumIds)[k])
                          \/ \E k \in 1..Len(TopLevelAlbumIds) :
                                InAlbum(p, TopLevelAlbumIds[k]))
\* the same restricted to the albums without a description
TopLevelAlbumsUndescribedOnly(albumDesc) ==
  SelectSeq(TopLevelAlbumIds, LAMBDA a : a \in DOMAIN albumDesc /\ ~albumDesc[a].Valid)

\* DB.GetTopLevelAlbums
TopLevelAlbums(albumDesc) ==
  SelectSeq(TopLevelAlbumIds, LAMBDA a : a \in DOMAIN albumDesc)

\* DB.GetAlbumsWithoutAIDescription: ... AND _ai_description IS NULL
AlbumsWithoutAIDescription(albumDesc) ==
  SelectSeq(TopLevelAlbumIds, LAMBDA a : a \in DOMAIN albumDesc /\ ~albumDesc[a].Valid)

\* DB.GetPhotosInAlbum: the member photos as they are stored now
PhotosInAlbum(a, photoDesc) ==
  LET ids == SelectSeq(AlbumMembers(a), LAMBDA p : p \in DOMAIN photoDesc)
  IN [i \in 1..Len(ids) |-> [ID |-> ids[i], AIDescription |-> photoDesc[ids[i]]]]

\* DB.UpdatePhotoAIDescription: UPDATE photos SET _ai_description = ? WHERE id = ?
UpdatePhotoAIDescription(photoDesc, p, description) ==
  [photoDesc EXCEPT ![p] = Described(description)]

\* DB.UpdateAlbumAIDescription
UpdateAlbumAIDescription(albumDesc, a, description) ==
  [albumDesc EXCEPT ![a] = Described(description)]

\* the commands of the receive loop
JobKinds ==
  {"start_rescan", "describe_photos", "describe_all_albums", "retry_album_failures"}
PhotoKindsOfJob == {"start_rescan", "describe_photos"}

\* the job tasks that may run on the connection at the same time
Jobs == {"j1", "j2"}

\* sendProgress
ProgressEvent(stage, current, total) ==
  [ type |-> "progress",
    payload |-> [stage |-> stage, current |-> current, total |-> total] ]

\* sendError
ErrorEvent(msg) == [type |-> "error", payload |-> [error |-> msg]]
\* the same with the photo errors alone counted
ErrorSummaryCountsPhotosOnly(photoErrors, albumErrors) ==
  [ photo_errors |-> photoErrors, album_errors |-> albumErrors,
    total_errors |-> Len(photoErrors) ]

\* ErrorSummary
ErrorSummary(photoErrors, albumErrors) ==
  [ photo_errors |-> photoErrors, album_errors |-> albumErrors,
    total_errors |-> Len(photoErrors) + Len(albumErrors) ]

\* the complete event of handleRescan: a message and nothing else
CompleteBare(message) ==
  [type |-> "complete", payload |-> [message |-> message]]

\* the complete event of the other handlers: a message and the error summary
CompleteWithSummary(message, photoErrors, albumErrors) ==
  [ type |-> "complete",
    payload |-> [ message |-> message,
                  errors |-> ErrorSummary(photoErrors, albumErrors) ] ]

\* one job task: its kind, where it stands, its locals (the pools, the loop
\* index, rescan's counter, the album's photos, the description in hand, the
\* error lists), the events it wrote, the items whose processing began, and
\* the inference operations it started
NoJob ==
  [ kind |-> "", pc |-> "idle", photos |-> <<>>, albums |-> <<>>,
    i |-> 0, current |-> 0, members |-> <<>>, description |-> <<>>,
    photoErrors |-> <<>>, albumErrors |-> <<>>,
    events |-> <<>>, began |-> <<>>, calls |-> 0 ]

InitJobs ==
  /\ \E db \in StartupDatabases :
       /\ jPhotoDesc = db.photos
       /\ jAlbumDesc = db.albums
  /\ jJob = [j \in Jobs |-> NoJob]

IdleJobs ==
  /\ jPhotoDesc = NoRows
  /\ jAlbumDesc = NoRows
  /\ jJob = [j \in {} |-> NoJob]
\* the same with the total of the stage the job is in
TotalOfStage(job) ==
  IF job.kind = "start_rescan"
    THEN IF job.pc = "photoProgress" THEN Len(job.photos) ELSE Len(job.albums)
  ELSE IF job.kind = "describe_photos" THEN Len(job.photos)
  ELSE Len(job.albums)

\* totalWork / total of the job
Total(job) ==
  IF job.kind = "start_rescan" THEN Len(job.photos) + Len(job.albums)
  ELSE IF job.kind = "describe_photos" THEN Len(job.photos)
  ELSE Len(job.albums)

\* the `current` a progress event carries
ProgressCurrentFromZero(job) ==
  IF job.kind = "start_rescan" THEN job.current ELSE job.i - 1
ProgressCurrent(job) ==
  IF job.kind = "start_rescan" THEN job.current + 1 ELSE job.i

\* the job with event e written
Emit(job, e) == [job EXCEPT !.events = Append(@, e)]

\* the photo loop moves on: to the next photo, to rescan's album loop, or to
\* the end of the handler
ThenNextPhoto(job) ==
  IF job.i < Len(job.photos)
    THEN [job EXCEPT !.i = @ + 1, !.pc = "photoProgress", !.description = <<>>]
  ELSE IF job.kind = "start_rescan" /\ Len(job.albums) > 0
    THEN [job EXCEPT !.i = 1, !.pc = "albumProgress", !.description = <<>>]
  ELSE [job EXCEPT !.pc = "complete", !.description = <<>>]

\* the album loop moves on
ThenNextAlbum(job) ==
  IF job.i < Len(job.albums)
    THEN [job EXCEPT !.i = @ + 1, !.pc = "albumProgress",
                     !.members = <<>>, !.description = <<>>]
    ELSE [job EXCEPT !.pc = "complete", !.members = <<>>, !.description = <<>>]

\* the loops start, or the pool is empty
FirstItem(job) ==
  IF Len(job.photos) > 0 THEN [job EXCEPT !.i = 1, !.pc = "photoProgress"]
  ELSE IF Len(job.albums) > 0 THEN [job EXCEPT !.i = 1, !.pc = "albumProgress"]
  ELSE [job EXCEPT !.pc = "complete"]
\* the same with the loop left at the first failure
PhotoFailedAborts(job, msg) ==
  IF job.kind = "start_rescan" THEN [job EXCEPT !.i = Len(job.photos)]
  ELSE [job EXCEPT !.photoErrors = Append(@, [item |-> job.photos[job.i], error |-> msg]),
                   !.i = Len(job.photos)]

\* a failed photo: describe_photos appends to photoErrors, rescan only logs
PhotoFailed(job, msg) ==
  IF job.kind = "start_rescan" THEN job
  ELSE [job EXCEPT !.photoErrors = Append(@, [item |-> job.photos[job.i], error |-> msg])]
\* the same with a live notification: an error event is sent for the album
AlbumFailedNotifies(job, msg) ==
  IF job.kind = "start_rescan" THEN Emit(job, ErrorEvent(msg))
  ELSE Emit([job EXCEPT !.albumErrors = Append(@, [item |-> job.albums[job.i], error |-> msg])],
            ErrorEvent(msg))

\* a failed album: the album handlers append to albumErrors, rescan only logs
AlbumFailed(job, msg) ==
  IF job.kind = "start_rescan" THEN job
  ELSE [job EXCEPT !.albumErrors = Append(@, [item |-> job.albums[job.i], error |-> msg])]

\* HandleWebSocket: a command is read and its handler started as a new task
JobStart(j) ==
  /\ UNCHANGED notJobVars
  /\ jJob[j].pc = "idle"
  /\ \E kind \in JobKinds :
       jJob' = [jJob EXCEPT ![j] =
                  [NoJob EXCEPT !.kind = kind,
                                !.pc = IF kind \in PhotoKindsOfJob
                                         THEN "enumPhotos" ELSE "enumAlbums"]]
  /\ UNCHANGED <<jPhotoDesc, jAlbumDesc>>

\* handleRescan: GetPhotosWithoutAIDescription;
\* handleDescribePhotos: GetAllPhotosWithoutAIDescription
EnumeratePhotos(j) ==
  /\ UNCHANGED notJobVars
  /\ jJob[j].pc = "enumPhotos"
  /\ LET job == [jJob[j] EXCEPT !.photos =
                   IF jJob[j].kind = "start_rescan"
                     THEN PhotosWithoutAIDescription(jPhotoDesc)
                     ELSE AllPhotosWithoutAIDescription(jPhotoDesc)]
     IN jJob' = [jJob EXCEPT ![j] =
                   IF job.kind = "start_rescan"
                     THEN [job EXCEPT !.pc = "enumAlbums"]
                     ELSE FirstItem(job)]
  /\ UNCHANGED <<jPhotoDesc, jAlbumDesc>>
\* the same without the return: the handler goes on with a nil pool
EnumeratePhotosFailsNoReturn(j) ==
  /\ UNCHANGED notJobVars
  /\ jJob[j].pc = "enumPhotos"
  /\ LET job == Emit(jJob[j], ErrorEvent("Failed to get photos"))
     IN jJob' = [jJob EXCEPT ![j] =
                   IF job.kind = "start_rescan"
                     THEN [job EXCEPT !.pc = "enumAlbums"]
                     ELSE FirstItem(job)]
  /\ UNCHANGED <<jPhotoDesc, jAlbumDesc>>

\* the query fails: sendError and return
EnumeratePhotosFails(j) ==
  /\ UNCHANGED notJobVars
  /\ jJob[j].pc = "enumPhotos"
  /\ jJob' = [jJob EXCEPT ![j] =
                [Emit(jJob[j], ErrorEvent("Failed to get photos")) EXCEPT !.pc = "done"]]
  /\ UNCHANGED <<jPhotoDesc, jAlbumDesc>>

\* handleRescan, handleDescribeAllAlbums: GetTopLevelAlbums;
\* handleRetryAlbumFailures: GetAlbumsWithoutAIDescription
EnumerateAlbums(j) ==
  /\ UNCHANGED notJobVars
  /\ jJob[j].pc = "enumAlbums"
  /\ jJob' = [jJob EXCEPT ![j] =
                FirstItem([jJob[j] EXCEPT !.albums =
                             IF jJob[j].kind = "retry_album_failures"
                               THEN AlbumsWithoutAIDescription(jAlbumDesc)
                               ELSE TopLevelAlbums(jAlbumDesc)])]
  /\ UNCHANGED <<jPhotoDesc, jAlbumDesc>>

EnumerateAlbumsFails(j) ==
  /\ UNCHANGED notJobVars
  /\ jJob[j].pc = "enumAlbums"
  /\ jJob' = [jJob EXCEPT ![j] =
                [Emit(jJob[j], ErrorEvent("Failed to get albums")) EXCEPT !.pc = "done"]]
  /\ UNCHANGED <<jPhotoDesc, jAlbumDesc>>

\* the photo loop: sendProgress for the photo
SendPhotoProgress(j) ==
  /\ UNCHANGED notJobVars
  /\ jJob[j].pc = "photoProgress"
  /\ jJob' = [jJob EXCEPT ![j] =
                [Emit(jJob[j], ProgressEvent("photos", ProgressCurrent(jJob[j]),
                                             Total(jJob[j])))
                   EXCEPT !.current = @ + 1, !.pc = "generate"]]
  /\ UNCHANGED <<jPhotoDesc, jAlbumDesc>>

\* GeneratePhotoDescription returns an error: the variant lookup failed, the
\* photo is a video, the image fetch failed, or the inference operation failed
GeneratePhotoFails(j) ==
  /\ UNCHANGED notJobVars
  /\ jJob[j].pc = "generate"
  /\ \E cause \in IF IsMovie(jJob[j].photos[jJob[j].i])
                    THEN {"failed to get image variant", "skipping movie file"}
                    ELSE {"failed to get image variant", "failed to fetch image",
                          "failed to generate photo description after retries"} :
       jJob' = [jJob EXCEPT ![j] =
                  ThenNextPhoto([PhotoFailed(jJob[j], cause) EXCEPT
                               !.began = Append(@, jJob[j].photos[jJob[j].i]),
                               !.calls = IF cause = "failed to generate photo description after retries"
                                           THEN @ + 1 ELSE @])]
  /\ UNCHANGED <<jPhotoDesc, jAlbumDesc>>

\* GeneratePhotoDescription returns a description
GeneratePhoto(j) ==
  /\ UNCHANGED notJobVars
  /\ jJob[j].pc = "generate"
  /\ ~IsMovie(jJob[j].photos[jJob[j].i])
  /\ jJob' = [jJob EXCEPT ![j] =
                [jJob[j] EXCEPT !.began = Append(@, jJob[j].photos[jJob[j].i]),
                                !.calls = @ + 1,
                                !.description = <<"photo", jJob[j].photos[jJob[j].i], j>>,
                                !.pc = "persistPhoto"]]
  /\ UNCHANGED <<jPhotoDesc, jAlbumDesc>>

\* UpdatePhotoAIDescription(photo.ID, description)
PersistPhoto(j) ==
  /\ UNCHANGED notJobVars
  /\ jJob[j].pc = "persistPhoto"
  /\ jPhotoDesc' = UpdatePhotoAIDescription(jPhotoDesc, jJob[j].photos[jJob[j].i],
                                            jJob[j].description)
  /\ jJob' = [jJob EXCEPT ![j] = ThenNextPhoto(jJob[j])]
  /\ UNCHANGED jAlbumDesc

PersistPhotoFails(j) ==
  /\ UNCHANGED notJobVars
  /\ jJob[j].pc = "persistPhoto"
  /\ jJob' = [jJob EXCEPT ![j] =
                ThenNextPhoto(PhotoFailed(jJob[j], "Failed to save description"))]
  /\ UNCHANGED <<jPhotoDesc, jAlbumDesc>>

\* the album loop: sendProgress for the album
SendAlbumProgress(j) ==
  /\ UNCHANGED notJobVars
  /\ jJob[j].pc = "albumProgress"
  /\ jJob' = [jJob EXCEPT ![j] =
                [Emit(jJob[j], ProgressEvent("albums", ProgressCurrent(jJob[j]),
                                             Total(jJob[j])))
                   EXCEPT !.current = @ + 1, !.pc = "listPhotos"]]
  /\ UNCHANGED <<jPhotoDesc, jAlbumDesc>>

\* GetPhotosInAlbum; an album without photos is left at once
ListAlbumPhotos(j) ==
  /\ UNCHANGED notJobVars
  /\ jJob[j].pc = "listPhotos"
  /\ LET a == jJob[j].albums[jJob[j].i]
         job == [jJob[j] EXCEPT !.began = Append(@, a),
                                !.members = PhotosInAlbum(a, jPhotoDesc)]
     IN jJob' = [jJob EXCEPT ![j] =
                   IF Len(job.members) = 0
                     THEN ThenNextAlbum(AlbumFailed(job, "No photos found"))
                     ELSE [job EXCEPT !.pc = "describe"]]
  /\ UNCHANGED <<jPhotoDesc, jAlbumDesc>>

ListAlbumPhotosFails(j) ==
  /\ UNCHANGED notJobVars
  /\ jJob[j].pc = "listPhotos"
  /\ jJob' = [jJob EXCEPT ![j] =
                ThenNextAlbum(AlbumFailed([jJob[j] EXCEPT
                                         !.began = Append(@, jJob[j].albums[jJob[j].i])],
                                      "Failed to get photos"))]
  /\ UNCHANGED <<jPhotoDesc, jAlbumDesc>>

\* GenerateAlbumDescription returns an error: no photo of the album has a
\* description (no inference), or compaction or the synthesis failed
DescribeAlbumFails(j) ==
  /\ UNCHANGED notJobVars
  /\ jJob[j].pc = "describe"
  /\ LET described == SelectSeq(jJob[j].members, LAMBDA ph : ph.AIDescription.Valid)
     IN jJob' = [jJob EXCEPT ![j] =
                   IF Len(described) = 0
                     THEN ThenNextAlbum(AlbumFailed(jJob[j], "no photo descriptions available"))
                     ELSE ThenNextAlbum([AlbumFailed(jJob[j], "failed to generate album description")
                                       EXCEPT !.calls = @ + 1])]
  /\ UNCHANGED <<jPhotoDesc, jAlbumDesc>>

\* GenerateAlbumDescription returns a description
DescribeAlbum(j) ==
  /\ UNCHANGED notJobVars
  /\ jJob[j].pc = "describe"
  /\ Len(SelectSeq(jJob[j].members, LAMBDA ph : ph.AIDescription.Valid)) > 0
  /\ jJob' = [jJob EXCEPT ![j] =
                [jJob[j] EXCEPT !.calls = @ + 1,
                                !.description = <<"album", jJob[j].albums[jJob[j].i], j>>,
                                !.pc = "persistAlbum"]]
  /\ UNCHANGED <<jPhotoDesc, jAlbumDesc>>

\* UpdateAlbumAIDescription(album.ID, description)
PersistAlbum(j) ==
  /\ UNCHANGED notJobVars
  /\ jJob[j].pc = "persistAlbum"
  /\ jAlbumDesc' = UpdateAlbumAIDescription(jAlbumDesc, jJob[j].albums[jJob[j].i],
                                            jJob[j].description)
  /\ jJob' = [jJob EXCEPT ![j] = ThenNextAlbum(jJob[j])]
  /\ UNCHANGED jPhotoDesc

PersistAlbumFails(j) ==
  /\ UNCHANGED notJobVars
  /\ jJob[j].pc = "persistAlbum"
  /\ jJob' = [jJob EXCEPT ![j] =
                ThenNextAlbum(AlbumFailed(jJob[j], "Failed to save description"))]
  /\ UNCHANGED <<jPhotoDesc, jAlbumDesc>>

\* the handler's last statement: the complete event
CompleteEvent(job) ==
  IF job.kind = "start_rescan"
    THEN CompleteBare(IF Total(job) = 0 THEN <<"No photos or albums to process">>
                                        ELSE <<"Rescan complete">>)
  ELSE IF Total(job) = 0
    THEN CompleteWithSummary(
           IF job.kind = "describe_photos" THEN <<"No photos need descriptions">>
           ELSE IF job.kind = "describe_all_albums" THEN <<"No albums to describe">>
           ELSE <<"No albums need descriptions">>,
           <<>>, <<>>)
  ELSE CompleteWithSummary(
         <<"Described", Total(job) - Len(job.photoErrors) - Len(job.albumErrors),
           IF job.kind = "describe_photos" THEN "photos" ELSE "albums">>,
         job.photoErrors, job.albumErrors)

JobComplete(j) ==
  /\ UNCHANGED notJobVars
  /\ jJob[j].pc = "complete"
  /\ jJob' = [jJob EXCEPT ![j] =
                [Emit(jJob[j], CompleteEvent(jJob[j])) EXCEPT !.pc = "done"]]
  /\ UNCHANGED <<jPhotoDesc, jAlbumDesc>>

NextJobs ==
  \E j \in Jobs :
    \/ JobStart(j)
    \/ EnumeratePhotos(j)
    \/ EnumeratePhotosFails(j)
    \/ EnumerateAlbums(j)
    \/ EnumerateAlbumsFails(j)
    \/ SendPhotoProgress(j)
    \/ GeneratePhotoFails(j)
    \/ GeneratePhoto(j)
    \/ PersistPhoto(j)
    \/ PersistPhotoFails(j)
    \/ SendAlbumProgress(j)
    \/ ListAlbumPhotos(j)
    \/ ListAlbumPhotosFails(j)
    \/ DescribeAlbumFails(j)
    \/ DescribeAlbum(j)
    \/ PersistAlbum(j)
    \/ PersistAlbumFails(j)
    \/ JobComplete(j)

(***************************************************************************)
(* DB.GetPhotoSizeVariant (internal/database): the size variant whose      *)
(* image is sent to the model                                              *)
(***************************************************************************)
SizeVariantOriginal == 0
SizeVariantMedium == 2
SizeVariantThumb == 6

\* size_variants.type: 0 original ... 6 thumb
VariantTypes == SizeVariantOriginal..SizeVariantThumb

\* the rows of one photo: (photo_id, type) is a unique key, so a photo holds
\* at most one variant of each type
VariantRow(type) == [PhotoID |-> "p1", Type |-> type, ShortPath |-> <<"path", type>>]
PhotoVariantSets == SUBSET VariantTypes

\* ORDER BY type ASC LIMIT 1 over the types that matched
FirstByTypeAsc(types) == CHOOSE t \in types : \A u \in types : t <= u

NoVariant == [PhotoID |-> "", Type |-> -1, ShortPath |-> <<>>]

\* SELECT ... FROM size_variants WHERE photo_id = ? AND type IN (?, ?)
\* ORDER BY type ASC LIMIT 1, with SizeVariantMedium and SizeVariantOriginal;
\* no row is sql.ErrNoRows
GetPhotoSizeVariant(types) ==
  LET matching == types \cap {SizeVariantMedium, SizeVariantOriginal}
  IN IF matching = {}
       THEN [variant |-> NoVariant, err |-> "sql: no rows in result set"]
       ELSE [variant |-> VariantRow(FirstByTypeAsc(matching)), err |-> ""]

InitVariant ==
  /\ vPc = "ready"
  /\ vRows \in PhotoVariantSets
  /\ vResult = [variant |-> NoVariant, err |-> ""]

IdleVariant ==
  /\ vPc = "idle"
  /\ vRows = {}
  /\ vResult = [variant |-> NoVariant, err |-> ""]

\* the query found a row
VariantFound ==
  /\ UNCHANGED notVariantVars
  /\ vPc = "ready"
  /\ GetPhotoSizeVariant(vRows).err = ""
  /\ vResult' = GetPhotoSizeVariant(vRows)
  /\ vPc' = "found"
  /\ UNCHANGED vRows

\* row.Scan returns sql.ErrNoRows
VariantNoRows ==
  /\ UNCHANGED notVariantVars
  /\ vPc = "ready"
  /\ GetPhotoSizeVariant(vRows).err # ""
  /\ vResult' = GetPhotoSizeVariant(vRows)
  /\ vPc' = "error"
  /\ UNCHANGED vRows

\* the query itself fails (connection lost)
VariantQueryFails ==
  /\ UNCHANGED notVariantVars
  /\ vPc = "ready"
  /\ vResult' = [variant |-> NoVariant, err |-> "query failed"]
  /\ vPc' = "error"
  /\ UNCHANGED vRows

NextVariant ==
  \/ VariantFound
  \/ VariantNoRows
  \/ VariantQueryFails

(***************************************************************************)
(* App.Run (main package) and Cache.Load (internal/cache): startup         *)
(***************************************************************************)
\* what os.ReadFile and json.Unmarshal can meet at the cache path
MaxFileEntries == 2
FileEntries ==
  { [PhotoID |-> p, Suggestions |-> s] :
      p \in {"p1", "p2"}, s \in { <<>>, <<"a1">>, <<"a2", "a1">> } }
FileLists == UNION { [1..n -> FileEntries] : n \in 0..MaxFileEntries }
CacheFiles ==
  { [kind |-> "missing", entries |-> <<>>],
    [kind |-> "unreadable", entries |-> <<>>],
    [kind |-> "malformed", entries |-> <<>>] }
    \cup { [kind |-> "json", entries |-> l] : l \in FileLists }

InitStartup ==
  /\ uPc = "init"
  /\ uFile \in CacheFiles
  /\ uCache = EmptyCache
  /\ uPending = <<>>
  /\ uLoadErr = ""
  /\ uRunErr = ""

IdleStartup ==
  /\ uPc = "idle"
  /\ uFile = [kind |-> "missing", entries |-> <<>>]
  /\ uCache = EmptyCache
  /\ uPending = <<>>
  /\ uLoadErr = ""
  /\ uRunErr = ""

\* App.Run: the configuration, the database and the inference client are set
\* up, then cache.NewCache
RunInitialises ==
  /\ UNCHANGED notStartupVars
  /\ uPc = "init"
  /\ uPc' = "load"
  /\ UNCHANGED <<uFile, uCache, uPending, uLoadErr, uRunErr>>

\* App.Run: one of them fails and Run returns the error
RunInitialiseFails ==
  /\ UNCHANGED notStartupVars
  /\ uPc = "init"
  /\ \E e \in {"failed to load config", "failed to connect to database",
               "failed to initialize Ollama client"} : uRunErr' = e
  /\ uPc' = "exited"
  /\ UNCHANGED <<uFile, uCache, uPending, uLoadErr>>

\* Cache.Load: os.ReadFile reports that the file does not exist
LoadMissingFile ==
  /\ UNCHANGED notStartupVars
  /\ uPc = "load"
  /\ uFile.kind = "missing"
  /\ uPc' = "loaded"
  /\ UNCHANGED <<uFile, uCache, uPending, uLoadErr, uRunErr>>

\* Cache.Load: os.ReadFile fails otherwise
LoadReadFails ==
  /\ UNCHANGED notStartupVars
  /\ uPc = "load"
  /\ uFile.kind = "unreadable"
  /\ uLoadErr' = "read error"
  /\ uPc' = "loaded"
  /\ UNCHANGED <<uFile, uCache, uPending, uRunErr>>

\* Cache.Load: json.Unmarshal fails
LoadParseFails ==
  /\ UNCHANGED notStartupVars
  /\ uPc = "load"
  /\ uFile.kind = "malformed"
  /\ uLoadErr' = "parse error"
  /\ uPc' = "loaded"
  /\ UNCHANGED <<uFile, uCache, uPending, uRunErr>>

\* Cache.Load: the file is read and parsed
LoadParses ==
  /\ UNCHANGED notStartupVars
  /\ uPc = "load"
  /\ uFile.kind = "json"
  /\ uPending' = uFile.entries
  /\ uPc' = "entries"
  /\ UNCHANGED <<uFile, uCache, uLoadErr, uRunErr>>

\* Cache.Load: c.suggestions[s.PhotoID] = s.Suggestions for the next entry
LoadEntry ==
  /\ UNCHANGED notStartupVars
  /\ uPc = "entries"
  /\ uPending # <<>>
  /\ uCache' = CacheSet(uCache, Head(uPending).PhotoID, Head(uPending).Suggestions)
  /\ uPending' = Tail(uPending)
  /\ UNCHANGED <<uPc, uFile, uLoadErr, uRunErr>>

\* Cache.Load: return nil after the last entry
LoadReturns ==
  /\ UNCHANGED notStartupVars
  /\ uPc = "entries"
  /\ uPending = <<>>
  /\ uPc' = "loaded"
  /\ UNCHANGED <<uFile, uCache, uPending, uLoadErr, uRunErr>>

\* App.Run: a Load error is logged as a warning; the servers are built, the
\* routes set and http.ListenAndServe is called
RunServes ==
  /\ UNCHANGED notStartupVars
  /\ uPc = "loaded"
  /\ uPc' = "serving"
  /\ UNCHANGED <<uFile, uCache, uPending, uLoadErr, uRunErr>>

\* http.ListenAndServe returns an error (the address is in use)
RunListenFails ==
  /\ UNCHANGED notStartupVars
  /\ uPc = "loaded"
  /\ uRunErr' = "listen failed"
  /\ uPc' = "exited"
  /\ UNCHANGED <<uFile, uCache, uPending, uLoadErr>>

NextStartup ==
  \/ RunInitialises
  \/ RunInitialiseFails
  \/ LoadMissingFile
  \/ LoadReadFails
  \/ LoadParseFails
  \/ LoadParses
  \/ LoadEntry
  \/ LoadReturns
  \/ RunServes
  \/ RunListenFails

(***************************************************************************)
(* Client.GeneratePhotoDescription, the text path: generateWithRetry       *)
(* returns the trimmed completion, removeThinkTags is applied to it        *)
(***************************************************************************)
\* completions: spaces or a line break around the words, and between the words
\* a think block, an unterminated think tag, or none
LeadTexts == { <<>>, <<SP, SP>>, <<NL>> }
MiddleTexts ==
  { <<SP>>,
    <<SP, THINK, "ignore", ENDTHINK, SP>>,
    <<THINK, "ignore", ENDTHINK>>,
    <<SP, THINK, "ignore", NL, "more", ENDTHINK>>,
    <<SP, THINK, "ignore", SP>>,
    <<NL, THINK, "ignore", NL>> }
TrailTexts == { <<>>, <<SP, SP>>, <<SP, THINK>> }
CompletionTexts ==
  { lead \o <<"Hello">> \o mid \o <<"World">> \o trail :
      lead \in LeadTexts, mid \in MiddleTexts, trail \in TrailTexts }

\* description, err := c.generateWithRetry(ctx, req);
\* description = removeThinkTags(description)
DescriptionOf(completion) == removeThinkTags(TrimSpace(completion))

InitThink ==
  /\ tPc = "ready"
  /\ tCompletion \in CompletionTexts
  /\ tResult = <<>>

IdleThink ==
  /\ tPc = "idle"
  /\ tCompletion = <<>>
  /\ tResult = <<>>

\* the description operation returns
DescriptionReturns ==
  /\ UNCHANGED notThinkVars
  /\ tPc = "ready"
  /\ tResult' = DescriptionOf(tCompletion)
  /\ tPc' = "done"
  /\ UNCHANGED tCompletion

\* generateWithRetry returns an error: no description
DescriptionFails ==
  /\ UNCHANGED notThinkVars
  /\ tPc = "ready"
  /\ tPc' = "error"
  /\ UNCHANGED <<tCompletion, tResult>>

NextThink ==
  \/ DescriptionReturns
  \/ DescriptionFails

(***************************************************************************)
(* Album options: DB.blocklist and DB.pinnedOnly in the album queries, the *)
(* album jobs that describe what the queries return, and the suggestions   *)
(* response built from a cached or a fresh list                            *)
(***************************************************************************)
ScopeAlbumIds == <<"a1", "a2", "s1">>

\* one row of base_albums LEFT JOIN albums
ScopeRow(id, pinned, described) ==
  [ ID |-> id, IsPinned |-> pinned, HasParent |-> id = "s1",
    AIDescription |-> IF described THEN EarlierDescription(id) ELSE NoString ]

\* the album tables: a1 and a2 are top-level, s1 is nested and pinned
ScopeTables ==
  { [i \in 1..3 |-> ScopeRow(ScopeAlbumIds[i], i = 3 \/ pinned[i], i # 3 /\ described[i])] :
      pinned \in [1..2 -> BOOLEAN], described \in [1..2 -> BOOLEAN] }

\* cfg.Albums.Blocklist as NewDB stores it
ScopeBlocklists == { {}, {"a1"}, {"a2"}, {"a1", "a2"}, {"s1"} }

\* the lists the cache may hold for the photo, written under any configuration
ScopeCachedLists == { <<"a1", "a2">>, <<"a2">>, <<"a3", "a1">>, <<"s1", "a2", "a1">> }

\* the album ids a model response may name
ScopeAnswers == { <<"a1", "a2">>, <<"a2", "a1", "s1">>, <<"a9", "a1">> }

\* buildBlocklistCondition: " AND ba.id NOT IN (...)", empty without a blocklist
blocklistConditionIgnored(row, blocklist) == TRUE
blocklistCondition(row, blocklist) ==
  IF Cardinality(blocklist) = 0 THEN TRUE ELSE row.ID \notin blocklist

\* pinnedCondition: " AND ba.is_pinned = 1" when pinnedOnly
pinnedCondition(row, pinnedOnly) ==
  IF pinnedOnly THEN row.IsPinned ELSE TRUE

\* DB.GetTopLevelAlbums with the album options
GetTopLevelAlbums(rows, blocklist, pinnedOnly) ==
  SelectSeq(rows, LAMBDA row :
    /\ ~row.HasParent
    /\ blocklistCondition(row, blocklist)
    /\ pinnedCondition(row, pinnedOnly))

\* DB.GetAlbumsWithoutAIDescription with the album options
GetAlbumsWithoutAIDescription(rows, blocklist, pinnedOnly) ==
  SelectSeq(rows, LAMBDA row :
    /\ ~row.HasParent
    /\ ~row.AIDescription.Valid
    /\ blocklistCondition(row, blocklist)
    /\ pinnedCondition(row, pinnedOnly))

AlbumIDs(albums) == [i \in 1..Len(albums) |-> albums[i].ID]

InitScope ==
  /\ kPc = "ready"
  /\ kBlocklist \in ScopeBlocklists
  /\ kPinnedOnly \in BOOLEAN
  /\ kRows \in ScopeTables
  /\ kCached \in ScopeCachedLists
  /\ kDescribed = <<>>
  /\ kReturned = <<>>

IdleScope ==
  /\ kPc = "idle"
  /\ kBlocklist = {}
  /\ kPinnedOnly = FALSE
  /\ kRows = <<>>
  /\ kCached = <<>>
  /\ kDescribed = <<>>
  /\ kReturned = <<>>

\* handleDescribeAllAlbums and the albums stage of handleRescan: every album
\* GetTopLevelAlbums returns is an item of the job
ScopeDescribeAllAlbums ==
  /\ kPc = "ready"
  /\ kDescribed' = AlbumIDs(GetTopLevelAlbums(kRows, kBlocklist, kPinnedOnly))
  /\ kPc' = "done"
  /\ UNCHANGED <<kBlocklist, kPinnedOnly, kRows, kCached, kReturned>>
  /\ UNCHANGED notScopeVars

\* handleRetryAlbumFailures: every album GetAlbumsWithoutAIDescription returns
ScopeRetryAlbumFailures ==
  /\ kPc = "ready"
  /\ kDescribed' = AlbumIDs(GetAlbumsWithoutAIDescription(kRows, kBlocklist, kPinnedOnly))
  /\ kPc' = "done"
  /\ UNCHANGED <<kBlocklist, kPinnedOnly, kRows, kCached, kReturned>>
  /\ UNCHANGED notScopeVars

\* handlePhotoSuggestions, cache hit: the cached list goes through the
\* response loop against the albums GetTopLevelAlbums returns now
ScopeRespondFromCache ==
  /\ kPc = "ready"
  /\ LET albums == GetTopLevelAlbums(kRows, kBlocklist, kPinnedOnly)
     IN kReturned' = ResponseLoop(<<>>, kCached, ValidAlbumIDs(albums))
  /\ kPc' = "done"
  /\ UNCHANGED <<kBlocklist, kPinnedOnly, kRows, kCached, kDescribed>>
  /\ UNCHANGED notScopeVars

\* handlePhotoSuggestions, cache miss: the ids of the model response are
\* filtered against the albums listed, stored, and go through the response loop
ScopeRespondFresh ==
  /\ kPc = "ready"
  /\ \E ids \in ScopeAnswers :
       LET albums == GetTopLevelAlbums(kRows, kBlocklist, kPinnedOnly)
           suggestions == FilterSuggestions(ids, ValidAlbumIDs(albums))
       IN /\ Len(AlbumDescs(albums)) > 0
          /\ kCached' = suggestions
          /\ kReturned' = ResponseLoop(<<>>, suggestions, ValidAlbumIDs(albums))
  /\ kPc' = "done"
  /\ UNCHANGED <<kBlocklist, kPinnedOnly, kRows, kDescribed>>
  /\ UNCHANGED notScopeVars

NextScope ==
  \/ ScopeDescribeAllAlbums
  \/ ScopeRetryAlbumFailures
  \/ ScopeRespondFromCache
  \/ ScopeRespondFresh

(***************************************************************************)
(* handleDescribePhotos' loop with GeneratePhotoDescription step by step:  *)
(* variant lookup, video check, image fetch, inference, persist            *)
(***************************************************************************)
MaxPool == 3
\* the pools: photo i of the pool has id i, and is a movie or not
ItemPools ==
  UNION { { [i \in 1..n |-> [ID |-> i, movie |-> movie[i]]] :
              movie \in [1..n -> BOOLEAN] } : n \in 0..MaxPool }

\* where the item goes after a step: on to the next step if the step
\* succeeded, out of the item if it returned an error
AfterStepUnconditional(step, ok) ==
  CASE step = "variant" -> "video"
    [] step = "video" -> "fetch"
    [] step = "fetch" -> "inference"
    [] step = "inference" -> "persist"
    [] step = "persist" -> "end"
AfterStep(step, ok) ==
  IF ~ok THEN "end"
  ELSE CASE step = "variant" -> "video"
         [] step = "video" -> "fetch"
         [] step = "fetch" -> "inference"
         [] step = "inference" -> "persist"
         [] step = "persist" -> "end"

InitItem ==
  /\ iPc = "ready"
  /\ iPhotos \in ItemPools
  /\ iIdx = 0
  /\ iTrace = <<>>
  /\ iStored = {}

IdleItem ==
  /\ iPc = "idle"
  /\ iPhotos = <<>>
  /\ iIdx = 0
  /\ iTrace = <<>>
  /\ iStored = {}

\* the step `step` of the current item is taken with outcome ok; the loop
\* goes on within the item, to the next item, or ends
ItemStep(step, ok) ==
  /\ iPc = step
  /\ iTrace' = Append(iTrace, [item |-> iIdx, step |-> step, ok |-> ok])
  /\ LET next == AfterStep(step, ok)
     IN IF next # "end"
          THEN /\ iPc' = next
               /\ UNCHANGED iIdx
          ELSE IF iIdx < Len(iPhotos)
            THEN /\ iPc' = "variant"
                 /\ iIdx' = iIdx + 1
            ELSE /\ iPc' = "done"
                 /\ UNCHANGED iIdx
  /\ UNCHANGED iPhotos
  /\ UNCHANGED notItemVars

\* for i, photo := range photos
ItemLoopStart ==
  /\ iPc = "ready"
  /\ IF Len(iPhotos) > 0
       THEN /\ iPc' = "variant"
            /\ iIdx' = 1
       ELSE /\ iPc' = "done"
            /\ UNCHANGED iIdx
  /\ UNCHANGED <<iPhotos, iTrace, iStored>>
  /\ UNCHANGED notItemVars

\* c.db.GetPhotoSizeVariant(photo.ID)
ItemGetPhotoSizeVariant ==
  /\ \E ok \in BOOLEAN : ItemStep("variant", ok)
  /\ UNCHANGED iStored

\* isMovieFile(photo, variant): a movie makes GeneratePhotoDescription return
ItemIsMovieFile ==
  /\ iPc = "video"
  /\ ItemStep("video", ~iPhotos[iIdx].movie)
  /\ UNCHANGED iStored

\* c.imageFetcher.GetImageBytes(variant)
ItemGetImageBytes ==
  /\ \E ok \in BOOLEAN : ItemStep("fetch", ok)
  /\ UNCHANGED iStored

\* c.generateWithRetry(ctx, req)
ItemGenerateWithRetry ==
  /\ \E ok \in BOOLEAN : ItemStep("inference", ok)
  /\ UNCHANGED iStored

\* h.db.UpdatePhotoAIDescription(photo.ID, description)
ItemUpdatePhotoAIDescription ==
  /\ iPc = "persist"
  /\ \E ok \in BOOLEAN :
       /\ ItemStep("persist", ok)
       /\ iStored' = IF ok THEN iStored \cup {iPhotos[iIdx].ID} ELSE iStored

NextItem ==
  \/ ItemLoopStart
  \/ ItemGetPhotoSizeVariant
  \/ ItemIsMovieFile
  \/ ItemGetImageBytes
  \/ ItemGenerateWithRetry
  \/ ItemUpdatePhotoAIDescription

(***************************************************************************)
(* HandleWebSocket's receive loop, conn.Close, and sendMessage: the writes *)
(* of the job tasks to the connection they were started on                 *)
(***************************************************************************)
MaxConnPool == 2

\* one job task: where it stands, the size of its pool, the item it is at, the
\* items attempted, those whose generation succeeded, those for which the
\* update was called, and the events delivered and lost
NoConnJob ==
  [ pc |-> "idle", total |-> 0, i |-> 0, attempted |-> {}, succeeded |-> {},
    updates |-> {}, sent |-> 0, lost |-> 0 ]

\* the loop of the handler moves to the next item, or to the complete event
ConnNextItem(job) ==
  IF job.i < job.total THEN [job EXCEPT !.i = @ + 1, !.pc = "progress"]
                       ELSE [job EXCEPT !.pc = "complete"]

\* sendMessage after conn.WriteJSON returned: an error is logged and nothing
\* else; the handler goes on after a progress event and returns after complete
AfterWriteStopsOnError(job, delivered) ==
  IF ~delivered THEN [job EXCEPT !.lost = @ + 1, !.pc = "done"]
  ELSE IF job.pc = "writingProgress"
    THEN [job EXCEPT !.sent = @ + 1, !.pc = "generate"]
    ELSE [job EXCEPT !.sent = @ + 1, !.pc = "done"]
AfterWrite(job, delivered) ==
  LET counted == IF delivered THEN [job EXCEPT !.sent = @ + 1]
                              ELSE [job EXCEPT !.lost = @ + 1]
  IN IF job.pc = "writingProgress"
       THEN [counted EXCEPT !.pc = "generate"]
       ELSE [counted EXCEPT !.pc = "done"]

ConnWriting(j) == nJob[j].pc \in {"writingProgress", "writingComplete"}

InitConn ==
  /\ nOpen = TRUE
  /\ nJob = [j \in Jobs |-> NoConnJob]

IdleConn ==
  /\ nOpen = FALSE
  /\ nJob = [j \in {} |-> NoConnJob]

\* conn.ReadJSON returns a command: go h.handle...(conn)
ConnReadCommand(j) ==
  /\ UNCHANGED notConnVars
  /\ nOpen
  /\ nJob[j].pc = "idle"
  /\ \E total \in 0..MaxConnPool :
       nJob' = [nJob EXCEPT ![j] =
                  ConnNextItem([NoConnJob EXCEPT !.total = total])]
  /\ UNCHANGED nOpen

\* conn.ReadJSON returns an error: break, and the deferred conn.Close runs
ConnReadError ==
  /\ UNCHANGED notConnVars
  /\ nOpen
  /\ nOpen' = FALSE
  /\ UNCHANGED nJob

\* sendMessage: conn.WriteJSON(msg) is entered
ConnWriteBegin(j) ==
  /\ UNCHANGED notConnVars
  /\ nJob[j].pc \in {"progress", "complete"}
  /\ nJob' = [nJob EXCEPT ![j].pc =
                IF nJob[j].pc = "progress" THEN "writingProgress" ELSE "writingComplete"]
  /\ UNCHANGED nOpen

\* sendMessage: conn.WriteJSON(msg) returns, nil on an open connection and an
\* error on a closed one
ConnWriteEnd(j) ==
  /\ UNCHANGED notConnVars
  /\ ConnWriting(j)
  /\ nJob' = [nJob EXCEPT ![j] = AfterWrite(nJob[j], nOpen)]
  /\ UNCHANGED nOpen

\* two tasks are inside conn.WriteJSON at once: the connection supports one
\* concurrent writer only; the library panics when it notices ("concurrent
\* write to websocket connection") and the process ends
ConnConcurrentWritePanic ==
  /\ UNCHANGED notConnVars
  /\ \E j, k \in Jobs : j # k /\ ConnWriting(j) /\ ConnWriting(k)
  /\ nJob' = [j \in Jobs |-> [nJob[j] EXCEPT !.pc = "crashed"]]
  /\ UNCHANGED nOpen

\* GeneratePhotoDescription for the item: a description, or an error
ConnGenerate(j) ==
  /\ UNCHANGED notConnVars
  /\ nJob[j].pc = "generate"
  /\ \E ok \in BOOLEAN :
       LET job == [nJob[j] EXCEPT !.attempted = @ \cup {nJob[j].i}]
       IN nJob' = [nJob EXCEPT ![j] =
                     IF ok THEN [job EXCEPT !.succeeded = @ \cup {job.i}, !.pc = "persist"]
                           ELSE ConnNextItem(job)]
  /\ UNCHANGED nOpen

\* UpdatePhotoAIDescription for the item
ConnPersist(j) ==
  /\ UNCHANGED notConnVars
  /\ nJob[j].pc = "persist"
  /\ nJob' = [nJob EXCEPT ![j] =
                ConnNextItem([nJob[j] EXCEPT !.updates = @ \cup {nJob[j].i}])]
  /\ UNCHANGED nOpen

NextConn ==
  \/ \E j \in Jobs : ConnReadCommand(j)
  \/ ConnReadError
  \/ \E j \in Jobs : ConnWriteBegin(j)
  \/ \E j \in Jobs : ConnWriteEnd(j)
  \/ ConnConcurrentWritePanic
  \/ \E j \in Jobs : ConnGenerate(j)
  \/ \E j \in Jobs : ConnPersist(j)

(***************************************************************************)
(* Cache.Save and Cache.Load through encoding/json: a cache filled by Set  *)
(* calls is saved, and a fresh Cache loads the file                        *)
(***************************************************************************)
MaxSets == 3

\* a []string: nil, or a slice with its elements (possibly none)
NilSlice == [nil |-> TRUE, items |-> <<>>]
SliceOf(items) == [nil |-> FALSE, items |-> items]
SuggestionSlices ==
  { NilSlice, SliceOf(<<>>), SliceOf(<<"a1">>), SliceOf(<<"a2", "a1">>) }
TripPhotoIds == {"p1", "p2"}

\* the orders in which `range c.suggestions` may visit the keys
KeyOrders(cache) ==
  { o \in UNION { [1..n -> DOMAIN cache] : n \in {Cardinality(DOMAIN cache)} } :
      \A i, k \in 1..Len(o) : i # k => o[i] # o[k] }

\* Save: the []AlbumSuggestion built from the map, visited in the order given
SaveEntries(cache, order) ==
  [i \in 1..Len(order) |-> [PhotoID |-> order[i], Suggestions |-> cache[order[i]]]]

\* a JSON document: null, or an array
JsonNull == [null |-> TRUE, array |-> <<>>]
JsonArray(elems) == [null |-> FALSE, array |-> elems]

\* json.Marshal of a []string: null for a nil slice, an array otherwise
MarshalStrings(slice) ==
  IF slice.nil THEN JsonNull ELSE JsonArray(slice.items)

\* json.Marshal of the []AlbumSuggestion: null when nothing was appended, else
\* an array of objects {"photo_id": ..., "suggestions": ...}
MarshalOmitEmpty(entries) ==
  LET kept == SelectSeq(entries, LAMBDA e : Len(e.Suggestions.items) > 0)
  IN IF Len(kept) = 0 THEN JsonNull
     ELSE JsonArray([i \in 1..Len(kept) |->
            [ photo_id |-> kept[i].PhotoID,
              suggestions |-> MarshalStrings(kept[i].Suggestions) ]])
Marshal(entries) ==
  IF Len(entries) = 0 THEN JsonNull
  ELSE JsonArray([i \in 1..Len(entries) |->
         [ photo_id |-> entries[i].PhotoID,
           suggestions |-> MarshalStrings(entries[i].Suggestions) ]])

\* json.Unmarshal into a []string
UnmarshalStrings(doc) ==
  IF doc.null THEN NilSlice ELSE SliceOf(doc.array)

\* json.Unmarshal into the []AlbumSuggestion
Unmarshal(doc) ==
  IF doc.null THEN <<>>
  ELSE [i \in 1..Len(doc.array) |->
         [ PhotoID |-> doc.array[i].photo_id,
           Suggestions |-> UnmarshalStrings(doc.array[i].suggestions) ]]

NoFile == [exists |-> FALSE, doc |-> JsonNull]

InitTrip ==
  /\ qPc = "setting"
  /\ qCache = EmptyCache
  /\ qSets = 0
  /\ qFile \in {NoFile, [exists |-> TRUE, doc |-> JsonNull]}
  /\ qPending = <<>>
  /\ qLoaded = EmptyCache

IdleTrip ==
  /\ qPc = "idle"
  /\ qCache = EmptyCache
  /\ qSets = 0
  /\ qFile = NoFile
  /\ qPending = <<>>
  /\ qLoaded = EmptyCache

\* Cache.Set(photoID, suggestions)
TripSet ==
  /\ UNCHANGED notTripVars
  /\ qPc = "setting"
  /\ qSets < MaxSets
  /\ \E photoID \in TripPhotoIds, suggestions \in SuggestionSlices :
       qCache' = CacheSet(qCache, photoID, suggestions)
  /\ qSets' = qSets + 1
  /\ UNCHANGED <<qPc, qFile, qPending, qLoaded>>

\* Cache.Save: the map is marshalled and os.WriteFile replaces the file
TripSave ==
  /\ UNCHANGED notTripVars
  /\ qPc = "setting"
  /\ \E order \in KeyOrders(qCache) :
       qFile' = [exists |-> TRUE, doc |-> Marshal(SaveEntries(qCache, order))]
  /\ qPc' = "saved"
  /\ UNCHANGED <<qCache, qSets, qPending, qLoaded>>

\* Cache.Save: os.WriteFile returns an error; Save returns it
TripSaveFails ==
  /\ UNCHANGED notTripVars
  /\ qPc = "setting"
  /\ qPc' = "failed"
  /\ UNCHANGED <<qCache, qSets, qFile, qPending, qLoaded>>

\* Cache.Load on a fresh Cache: the file is read and parsed
TripLoadParses ==
  /\ UNCHANGED notTripVars
  /\ qPc = "saved"
  /\ qFile.exists
  /\ qPending' = Unmarshal(qFile.doc)
  /\ qPc' = "entries"
  /\ UNCHANGED <<qCache, qSets, qFile, qLoaded>>

\* Cache.Load: c.suggestions[s.PhotoID] = s.Suggestions for the next entry
TripLoadEntry ==
  /\ UNCHANGED notTripVars
  /\ qPc = "entries"
  /\ qPending # <<>>
  /\ qLoaded' = CacheSet(qLoaded, Head(qPending).PhotoID, Head(qPending).Suggestions)
  /\ qPending' = Tail(qPending)
  /\ UNCHANGED <<qPc, qCache, qSets, qFile>>

\* Cache.Load: return nil after the last entry
TripLoadReturns ==
  /\ UNCHANGED notTripVars
  /\ qPc = "entries"
  /\ qPending = <<>>
  /\ qPc' = "loaded"
  /\ UNCHANGED <<qCache, qSets, qFile, qPending, qLoaded>>

NextTrip ==
  \/ TripSet
  \/ TripSave
  \/ TripSaveFails
  \/ TripLoadParses
  \/ TripLoadEntry
  \/ TripLoadReturns

(***************************************************************************)
(* Specifications                                                          *)
(***************************************************************************)
InitSpecRetry ==
  InitRetry /\ IdleAlbum /\ IdleGenerate /\ IdleSuggest /\ IdleJobs
    /\ IdleVariant /\ IdleStartup /\ IdleThink /\ IdleScope /\ IdleItem /\ IdleConn /\ IdleTrip
SpecRetry == InitSpecRetry /\ [][NextRetry]_vars

InitSpecAlbum ==
  IdleRetry /\ InitAlbum /\ IdleGenerate /\ IdleSuggest /\ IdleJobs
    /\ IdleVariant /\ IdleStartup /\ IdleThink /\ IdleScope /\ IdleItem /\ IdleConn /\ IdleTrip
SpecAlbum == InitSpecAlbum /\ [][NextAlbum]_vars

InitSpecGenerate ==
  IdleRetry /\ IdleAlbum /\ InitGenerate /\ IdleSuggest /\ IdleJobs
    /\ IdleVariant /\ IdleStartup /\ IdleThink /\ IdleScope /\ IdleItem /\ IdleConn /\ IdleTrip
SpecGenerate == InitSpecGenerate /\ [][NextGenerate]_vars

InitSpecSuggest ==
  IdleRetry /\ IdleAlbum /\ IdleGenerate /\ InitSuggest /\ IdleJobs
    /\ IdleVariant /\ IdleStartup /\ IdleThink /\ IdleScope /\ IdleItem /\ IdleConn /\ IdleTrip
SpecSuggest == InitSpecSuggest /\ [][NextSuggest]_vars

InitSpecJobs ==
  IdleRetry /\ IdleAlbum /\ IdleGenerate /\ IdleSuggest /\ InitJobs
    /\ IdleVariant /\ IdleStartup /\ IdleThink /\ IdleScope /\ IdleItem /\ IdleConn /\ IdleTrip
SpecJobs == InitSpecJobs /\ [][NextJobs]_vars

InitSpecVariant ==
  IdleRetry /\ IdleAlbum /\ IdleGenerate /\ IdleSuggest /\ IdleJobs
    /\ InitVariant /\ IdleStartup /\ IdleThink /\ IdleScope /\ IdleItem /\ IdleConn /\ IdleTrip
SpecVariant == InitSpecVariant /\ [][NextVariant]_vars

InitSpecStartup ==
  IdleRetry /\ IdleAlbum /\ IdleGenerate /\ IdleSuggest /\ IdleJobs
    /\ IdleVariant /\ InitStartup /\ IdleThink /\ IdleScope /\ IdleItem /\ IdleConn /\ IdleTrip
SpecStartup == InitSpecStartup /\ [][NextStartup]_vars

InitSpecThink ==
  IdleRetry /\ IdleAlbum /\ IdleGenerate /\ IdleSuggest /\ IdleJobs
    /\ IdleVariant /\ IdleStartup /\ InitThink /\ IdleScope /\ IdleItem /\ IdleConn /\ IdleTrip
SpecThink == InitSpecThink /\ [][NextThink]_vars

InitSpecScope ==
  IdleRetry /\ IdleAlbum /\ IdleGenerate /\ IdleSuggest /\ IdleJobs
    /\ IdleVariant /\ IdleStartup /\ IdleThink /\ InitScope /\ IdleItem /\ IdleConn /\ IdleTrip
SpecScope == InitSpecScope /\ [][NextScope]_vars

InitSpecItem ==
  IdleRetry /\ IdleAlbum /\ IdleGenerate /\ IdleSuggest /\ IdleJobs
    /\ IdleVariant /\ IdleStartup /\ IdleThink /\ IdleScope /\ InitItem /\ IdleConn /\ IdleTrip
SpecItem == InitSpecItem /\ [][NextItem]_vars

InitSpecConn ==
  IdleRetry /\ IdleAlbum /\ IdleGenerate /\ IdleSuggest /\ IdleJobs
    /\ IdleVariant /\ IdleStartup /\ IdleThink /\ IdleScope /\ IdleItem /\ InitConn /\ IdleTrip
SpecConn == InitSpecConn /\ [][NextConn]_vars

InitSpecTrip ==
  IdleRetry /\ IdleAlbum /\ IdleGenerate /\ IdleSuggest /\ IdleJobs
    /\ IdleVariant /\ IdleStartup /\ IdleThink /\ IdleScope /\ IdleItem /\ IdleConn /\ InitTrip
SpecTrip == InitSpecTrip /\ [][NextTrip]_vars

(***************************************************************************)
(* Properties of generateWithRetry  (under SpecRetry)                      *)
(***************************************************************************)

\* C8: one inference operation makes at most 3 attempts; only the attempt it
\* stops at can be a success (so two failures and a success are exactly 3
\* attempts); it reports an error exactly after 3 failed attempts, and a
\* finished operation has made no attempt beyond the one that ended it.
C8_AtMostThreeAttempts ==
  /\ Len(rHistory) <= 3
  /\ \A i \in 1..(Len(rHistory) - 1) : ~rHistory[i].ok
  /\ rPc = "running" => /\ Len(rHistory) < 3
                        /\ \A i \in 1..Len(rHistory) : ~rHistory[i].ok
  /\ rPc = "done" => /\ Len(rHistory) >= 1
                     /\ rHistory[Len(rHistory)].ok
                     /\ ~rResult.err
  /\ rPc = "failed" => /\ Len(rHistory) = 3
                       /\ \A i \in 1..3 : ~rHistory[i].ok
                       /\ rResult.err

\* two failed attempts, then a success: done after exactly 3 attempts
C8_Witness ==
  /\ rPc = "done"
  /\ Len(rHistory) = 3
  /\ ~rHistory[1].ok /\ ~rHistory[2].ok /\ rHistory[3].ok

(***************************************************************************)
(* Properties of the Album Describer and the Compactor                     *)
(*                                           (under SpecAlbum)             *)
(***************************************************************************)
IsCompactCall == aInput.entry = "compactDescriptionsHierarchically"
IsAlbumCall == aInput.entry = "GenerateAlbumDescription"

\* the list of strings a direct compaction call was given
CompactArgument == [i \in 1..aInput.n |-> <<"photo", i>>]

\* an upper bound on the steps a call can still take: the batches left at this
\* level, and four steps for every string the next level can be given
AlbumRank ==
  CASE aPc \in {"done", "error"} -> 0
    [] aPc = "synth" -> 1
    [] aPc = "compress" ->
         4 * Len(cBatches) + 6 + (Len(cBatches) - Len(cCompressed))
    [] aPc = "compact" -> 4 * Len(cDescs) + 4
    [] aPc = "ready" -> 4 * aInput.n + 5

\* the guards of the steps of a call, taken together
AlbumCanStep ==
  \/ aPc = "ready" /\ (IsAlbumCall \/ IsCompactCall)
  \/ aPc = "compact"
  \/ aPc = "compress" /\ Len(cCompressed) <= Len(cBatches)
  \/ aPc = "synth"

\* C2: compaction terminates for every list length: every step of a call
\* strictly lowers a natural-number bound on the steps left, and a call that
\* has not returned can always take a step; and a compaction that returns
\* without error returns at most B strings (B the batch size), both to a
\* direct caller and to GenerateAlbumDescription.
C2_CompactionTerminatesBounded ==
  /\ [][AlbumRank' < AlbumRank]_vars
  /\ [](AlbumRank \in Nat)
  /\ [](aPc \in {"done", "error"} \/ AlbumCanStep)
  /\ [](/\ (IsCompactCall /\ aPc = "done")
             => Len(aResult.list) <= maxDescriptionsBeforeCompaction
        /\ (IsAlbumCall /\ aPc \in {"synth", "done"})
             => Len(aCompacted) <= maxDescriptionsBeforeCompaction)

\* a list longer than B*B was compacted in two levels and returned
C2_Witness ==
  /\ IsCompactCall
  /\ aPc = "done"
  /\ aInput.n > maxDescriptionsBeforeCompaction * maxDescriptionsBeforeCompaction
  /\ cLevel = 2
  /\ Len(aResult.list) <= maxDescriptionsBeforeCompaction

\* C3: for a list of N <= B strings compaction returns the list it was given,
\* the same elements in the same order, and compresses nothing (no inference
\* call); GenerateAlbumDescription with at most B descriptions hands on the
\* extracted descriptions themselves, again without a compression call.
C3_CompactionIdentity ==
  /\ (IsCompactCall /\ aInput.n <= maxDescriptionsBeforeCompaction)
       => /\ aPc \in {"ready", "compact", "done"}
          /\ aCalls.compress = 0
          /\ cLevel = 0
          /\ aPc = "done" => /\ aResult.err = ""
                             /\ aResult.list = CompactArgument
  /\ (IsAlbumCall /\ aPc # "ready"
        /\ Len(aDescs) <= maxDescriptionsBeforeCompaction)
       => /\ aPc \in {"synth", "done", "error"}
          /\ aCalls.compress = 0
          /\ aPc = "synth" => aCompacted = aDescs

\* a direct call with exactly B strings has returned
C3_Witness ==
  /\ IsCompactCall
  /\ aInput.n = maxDescriptionsBeforeCompaction
  /\ aPc = "done"
  /\ Len(aResult.list) = maxDescriptionsBeforeCompaction

\* the X and Y of a result that ends with the date-range sentence
ResultX == SubSeq(aResult.text, Len(aResult.text) - 21, Len(aResult.text) - 12)
ResultY == SubSeq(aResult.text, Len(aResult.text) - 10, Len(aResult.text) - 1)

IsDigit(c) == c \in {"0", "1", "2", "3", "4", "5", "6", "7", "8", "9"}
\* a string of the form YYYY-MM-DD
IsDateString(s) ==
  /\ Len(s) = 10
  /\ s[5] = "-" /\ s[8] = "-"
  /\ \A i \in {1, 2, 3, 4, 6, 7, 9, 10} : IsDigit(s[i])

EndsWithDateRange(text) ==
  /\ Len(text) >= 23
  /\ text[Len(text) - 22] = " The album contains photos from dates "
  /\ text[Len(text) - 11] = " to "
  /\ text[Len(text)] = "."

\* C6: every successful GenerateAlbumDescription result ends with
\* " The album contains photos from dates X to Y.", X and Y of the form
\* YYYY-MM-DD and X <= Y in string order.
C6_ResultEndsWithDateRange ==
  (IsAlbumCall /\ aPc = "done")
    => /\ aResult.err = ""
       /\ EndsWithDateRange(aResult.text)
       /\ IsDateString(ResultX)
       /\ IsDateString(ResultY)
       /\ ~StrLess(ResultY, ResultX)

\* a successful result whose X is strictly before its Y
C6_Witness ==
  /\ IsAlbumCall
  /\ aPc = "done"
  /\ EndsWithDateRange(aResult.text)
  /\ StrLess(ResultX, ResultY)

\* the calendar order of two times, and a photo's effective time
Before(s, t) ==
  \/ s.y < t.y
  \/ s.y = t.y /\ s.m < t.m
  \/ s.y = t.y /\ s.m = t.m /\ s.d < t.d
EffectiveTime(photo) ==
  IF photo.TakenAt.Valid THEN photo.TakenAt.Time ELSE photo.CreatedAt
EffectiveTimes == { EffectiveTime(PhotoAt(aInput.base, i)) : i \in 1..aInput.n }
Earliest == CHOOSE t \in EffectiveTimes : \A u \in EffectiveTimes : ~Before(u, t)
Latest == CHOOSE t \in EffectiveTimes : \A u \in EffectiveTimes : ~Before(t, u)

Date_2024_01_15 == <<"2", "0", "2", "4", "-", "0", "1", "-", "1", "5">>
Date_2024_03_01 == <<"2", "0", "2", "4", "-", "0", "3", "-", "0", "1">>
\* the album {P1, P2}: P1 without taken_at and created 2024-03-01, P2 taken
\* 2024-01-15
IsExampleAlbum ==
  /\ aInput.n = 2
  /\ LET p1 == PhotoAt(aInput.base, 1)
         p2 == PhotoAt(aInput.base, 2)
     IN /\ p1.AIDescription.Valid /\ p2.AIDescription.Valid
        /\ ~p1.TakenAt.Valid
        /\ p1.CreatedAt = [y |-> 2024, m |-> 3, d |-> 1]
        /\ p2.TakenAt = [Valid |-> TRUE, Time |-> [y |-> 2024, m |-> 1, d |-> 15]]

\* C7: X and Y of the appended sentence are the earliest and the latest of
\* the member photos' effective dates (taken_at when present, else
\* created_at), whether or not compaction ran; the album {P1, P2} of the
\* example gets "2024-01-15 to 2024-03-01".
C7_DateRangeFromOriginalPhotos ==
  (IsAlbumCall /\ aPc = "done")
    => /\ EndsWithDateRange(aResult.text)
       /\ ResultX = FormatDate(Earliest)
       /\ ResultY = FormatDate(Latest)
       /\ IsExampleAlbum => /\ ResultX = Date_2024_01_15
                            /\ ResultY = Date_2024_03_01

\* a compacted album with a photo that has no taken_at, described successfully
C7_Witness ==
  /\ IsAlbumCall
  /\ aPc = "done"
  /\ cLevel >= 1
  /\ \E i \in 1..aInput.n : ~PhotoAt(aInput.base, i).TakenAt.Valid
  /\ ResultX # ResultY


(***************************************************************************)
(* Properties of the Suggestion Engine (under SpecGenerate) and of the     *)
(* Suggestion Cache (under SpecSuggest)                                    *)
(***************************************************************************)
\* C4: whatever the model answers, the list GenerateAlbumSuggestions returns has
\* at most 3 entries, and each entry is the id of an album in the list the call
\* was given; an id the model made up is never returned.
C4_SuggestionsFilteredAndCapped ==
  gPc = "done" =>
    /\ Len(gResult.suggestions) <= 3
    /\ \A i \in 1..Len(gResult.suggestions) :
         \E j \in 1..Len(gAlbums) : gAlbums[j].ID = gResult.suggestions[i]

\* an answer with a made-up id and four ids of supplied albums came back as
\* three ids
C4_Witness ==
  /\ gPc = "done"
  /\ \E i \in 1..Len(gAnswer.album_ids) :
       gAnswer.album_ids[i] \notin ValidAlbumIDs(gAlbums)
  /\ Cardinality({ i \in 1..Len(gAnswer.album_ids) :
                     gAnswer.album_ids[i] \in ValidAlbumIDs(gAlbums) }) = 4
  /\ Len(gResult.suggestions) = 3

\* C5: a suggestions request for a photo id that the cache holds an entry for
\* makes no inference call, whatever the state of the cache.
C5_CacheHitMakesNoInferenceCall ==
  \A r \in Requests : sReq[r].hadEntry => sReq[r].calls = 0

(***************************************************************************)
(* Properties of the batch jobs  (under SpecJobs)                          *)
(***************************************************************************)
\* C1: a photo's AI description, once non-null, is never overwritten by a
\* describe-missing job path (describe_photos, the photos stage of start_rescan),
\* whatever the interleaving of the jobs on the connection, also when two such
\* jobs enumerated their pools while the description was still null.
C1_DescriptionNeverOverwritten ==
  [][\A p \in DOMAIN jPhotoDesc :
       jPhotoDesc[p].Valid => jPhotoDesc'[p] = jPhotoDesc[p]]_vars

\* the events of a job, by type
EventsOfType(j, type) == SelectSeq(jJob[j].events, LAMBDA e : e.type = type)

\* the job's enumeration succeeded and found nothing to do
HasEmptyPool(j) ==
  /\ jJob[j].pc \in {"complete", "done"}
  /\ Total(jJob[j]) = 0
  /\ EventsOfType(j, "error") = <<>>

\* C9: a job of any kind whose candidate pool is empty emits exactly one
\* complete event, whose error summary has total_errors = 0, and emits no
\* progress event and makes no inference call.
C9_EmptyPoolCompletesWithZeroErrors ==
  \A j \in Jobs :
    HasEmptyPool(j) =>
      /\ EventsOfType(j, "progress") = <<>>
      /\ jJob[j].calls = 0
      /\ jJob[j].pc = "done" =>
           /\ Len(jJob[j].events) = 1
           /\ jJob[j].events[1].type = "complete"
           /\ "errors" \in DOMAIN jJob[j].events[1].payload
           /\ jJob[j].events[1].payload.errors.total_errors = 0

\* the pool of a job in processing order
PoolItems(j) == jJob[j].photos \o jJob[j].albums

\* C10: within one job a progress event is emitted for each pool item before
\* that item is processed; the current values of the job's successive progress
\* events are exactly 1, 2, ..., total, and total is the same in all of them
\* and equal to the pool size.
C10_ProgressCountsPoolItems ==
  \A j \in Jobs :
    LET progress == EventsOfType(j, "progress")
        began == jJob[j].began
    IN /\ \A k \in 1..Len(progress) :
            /\ progress[k].payload.current = k
            /\ progress[k].payload.total = Len(PoolItems(j))
       /\ Len(progress) <= Len(PoolItems(j))
       /\ Len(began) <= Len(progress)
       /\ Len(progress) <= Len(began) + 1
       /\ \A k \in 1..Len(began) : began[k] = PoolItems(j)[k]
       /\ (jJob[j].pc = "done" /\ EventsOfType(j, "error") = <<>>) =>
            Len(progress) = Len(PoolItems(j))

\* a rescan over three photos and two albums has ended: five progress events,
\* the last one for the second album
C10_Witness ==
  \E j \in Jobs :
    /\ jJob[j].kind = "start_rescan"
    /\ jJob[j].pc = "done"
    /\ Len(jJob[j].photos) = 3
    /\ Len(jJob[j].albums) = 2
    /\ Len(EventsOfType(j, "progress")) = 5
    /\ EventsOfType(j, "progress")[5].payload =
         [stage |-> "albums", current |-> 5, total |-> 5]
    /\ jJob[j].began = <<"p1", "p2", "p3", "a1", "a2">>

\* an upper bound on the steps a job task has left
JobRank(job) ==
  LET items == Len(job.photos) + Len(job.albums)
      left(k) == 4 * (items - k) + 1
  IN CASE job.pc = "done" -> 0
       [] job.pc = "complete" -> 1
       [] job.pc = "photoProgress" -> left(job.i) + 4
       [] job.pc = "generate" -> left(job.i) + 2
       [] job.pc = "persistPhoto" -> left(job.i) + 1
       [] job.pc = "albumProgress" -> left(Len(job.photos) + job.i) + 4
       [] job.pc = "listPhotos" -> left(Len(job.photos) + job.i) + 3
       [] job.pc = "describe" -> left(Len(job.photos) + job.i) + 2
       [] job.pc = "persistAlbum" -> left(Len(job.photos) + job.i) + 1
       [] job.pc = "enumAlbums" -> 30
       [] job.pc = "enumPhotos" -> 31
       [] job.pc = "idle" -> 32

\* the job ran its loops to the end: its last event is the complete event
RanToCompletion(j) ==
  /\ jJob[j].pc = "done"
  /\ jJob[j].events # <<>>
  /\ jJob[j].events[Len(jJob[j].events)].type = "complete"

\* C11: a failure of one item (variant lookup, image fetch, inference, listing
\* an album's photos, persistence) never aborts the job: every remaining item
\* of the pool is still attempted, in pool order, and the job then emits its
\* complete event.
C11_ItemFailureNeverAborts ==
  /\ [](\A j \in Jobs :
          /\ (jJob[j].pc = "done" /\ EventsOfType(j, "error") = <<>>) =>
               /\ RanToCompletion(j)
               /\ jJob[j].began = PoolItems(j)
          /\ jJob[j].pc \in {"photoProgress", "generate", "persistPhoto",
                             "albumProgress", "listPhotos", "describe",
                             "persistAlbum", "complete"} =>
               EventsOfType(j, "error") = <<>>)
  /\ [][\A j \in Jobs :
          jJob'[j] # jJob[j] => JobRank(jJob'[j]) < JobRank(jJob[j])]_vars

\* describe_photos over three photos: the first failed, the second could not be
\* saved, the third is a video; all three were attempted and the job completed
C11_Witness ==
  \E j \in Jobs :
    /\ jJob[j].kind = "describe_photos"
    /\ RanToCompletion(j)
    /\ jJob[j].began = <<"p1", "p2", "p3">>
    /\ Len(jJob[j].photoErrors) = 3
    /\ jJob[j].photoErrors[1].error = "failed to fetch image"

\* job j's step abandons the photo it is at: generation returned an error, or
\* the description could not be saved
PhotoFailsInStep(j) ==
  /\ jJob'[j] # jJob[j]
  /\ \/ jJob[j].pc = "generate" /\ jJob'[j].pc # "persistPhoto"
     \/ jJob[j].pc = "persistPhoto" /\ jPhotoDesc' = jPhotoDesc

\* job j's step abandons the album it is at: its photos could not be listed,
\* its description was not generated, or the description could not be saved
AlbumFailsInStep(j) ==
  /\ jJob'[j] # jJob[j]
  /\ \/ jJob[j].pc = "listPhotos" /\ jJob'[j].pc # "describe"
     \/ jJob[j].pc = "describe" /\ jJob'[j].pc # "persistAlbum"
     \/ jJob[j].pc = "persistAlbum" /\ jAlbumDesc' = jAlbumDesc

\* the payload of job j's last event carries the job's two error lists
CompleteCarriesErrorLists(j) ==
  LET payload == jJob[j].events[Len(jJob[j].events)].payload
  IN /\ "errors" \in DOMAIN payload
     /\ payload.errors.photo_errors = jJob[j].photoErrors
     /\ payload.errors.album_errors = jJob[j].albumErrors

\* C12: for every job kind the complete event carries the accumulated error
\* lists, partitioned into photo_errors and album_errors, with one entry for
\* each item that failed during the run.
C12_CompleteCarriesAllItemErrors ==
  /\ [](\A j \in Jobs : RanToCompletion(j) => CompleteCarriesErrorLists(j))
  /\ [][\A j \in Jobs :
          /\ PhotoFailsInStep(j) =>
               /\ Len(jJob'[j].photoErrors) = Len(jJob[j].photoErrors) + 1
               /\ jJob'[j].photoErrors[Len(jJob'[j].photoErrors)].item =
                    jJob[j].photos[jJob[j].i]
               /\ jJob'[j].albumErrors = jJob[j].albumErrors
          /\ AlbumFailsInStep(j) =>
               /\ Len(jJob'[j].albumErrors) = Len(jJob[j].albumErrors) + 1
               /\ jJob'[j].albumErrors[Len(jJob'[j].albumErrors)].item =
                    jJob[j].albums[jJob[j].i]
               /\ jJob'[j].photoErrors = jJob[j].photoErrors
          /\ (~PhotoFailsInStep(j) /\ ~AlbumFailsInStep(j)) =>
               /\ jJob'[j].photoErrors = jJob[j].photoErrors
               /\ jJob'[j].albumErrors = jJob[j].albumErrors]_vars

\* job j's step handles a video: GeneratePhotoDescription got the variant and
\* isMovieFile answered true
VideoSkippedInStep(j) ==
  /\ jJob[j].pc = "generate"
  /\ jJob'[j] # jJob[j]
  /\ IsMovie(jJob[j].photos[jJob[j].i])
  /\ \/ jJob'[j].photoErrors = jJob[j].photoErrors
     \/ jJob'[j].photoErrors[Len(jJob'[j].photoErrors)].error = "skipping movie file"

\* C13: a pool item that is a video is skipped, and the skip is not an error:
\* it adds no entry to photo_errors / total_errors, the item is not counted as
\* described, nothing is persisted for it, and the job goes on with the next
\* item.
C13_VideoSkipIsNotAnError ==
  [][\A j \in Jobs :
       VideoSkippedInStep(j) =>
         /\ jJob'[j].photoErrors = jJob[j].photoErrors
         /\ jJob'[j].albumErrors = jJob[j].albumErrors
         /\ jPhotoDesc' = jPhotoDesc
         /\ jJob'[j].calls = jJob[j].calls
         /\ jJob'[j] = ThenNextPhoto([jJob[j] EXCEPT
                         !.began = Append(@, jJob[j].photos[jJob[j].i])])]_vars

\* job j's step finds that enumerating a candidate pool failed
EnumerationFailsInStep(j) ==
  /\ jJob[j].pc \in {"enumPhotos", "enumAlbums"}
  /\ jJob'[j].pc = "done"

\* the descriptions job j has stored
DescriptionsWrittenBy(j) ==
  {p \in DOMAIN jPhotoDesc : jPhotoDesc[p] = Described(<<"photo", p, j>>)}
    \cup
  {a \in DOMAIN jAlbumDesc : jAlbumDesc[a] = Described(<<"album", a, j>>)}

\* C14: if enumerating a job's candidate pool fails (for start_rescan: the
\* photo or the album enumeration), the job emits exactly one error event and
\* nothing else: no progress event, no complete event, no inference call, and
\* no description is written.
C14_EnumerationFailureEmitsOneError ==
  /\ [][\A j \in Jobs :
          EnumerationFailsInStep(j) =>
            /\ jJob[j].events = <<>>
            /\ \E msg \in {"Failed to get photos", "Failed to get albums"} :
                 jJob'[j].events = <<ErrorEvent(msg)>>
            /\ jPhotoDesc' = jPhotoDesc /\ jAlbumDesc' = jAlbumDesc]_vars
  /\ [](\A j \in Jobs :
          EventsOfType(j, "error") # <<>> =>
            /\ jJob[j].pc = "done"
            /\ Len(jJob[j].events) = 1
            /\ jJob[j].calls = 0
            /\ jJob[j].began = <<>>
            /\ DescriptionsWrittenBy(j) = {})
  /\ [][\A j \in Jobs : jJob[j].pc = "done" => jJob'[j] = jJob[j]]_vars

\* a rescan whose photo pool was read and whose album enumeration then failed
C14_Witness ==
  \E j \in Jobs :
    /\ jJob[j].kind = "start_rescan"
    /\ jJob[j].pc = "done"
    /\ jJob[j].photos # <<>>
    /\ jJob[j].events = <<ErrorEvent("Failed to get albums")>>

\* job j's step reads its photo pool with the describe-missing-photos query of
\* its kind
PhotoPoolReadInStep(j) ==
  /\ jJob[j].pc = "enumPhotos"
  /\ jJob'[j].pc \notin {"enumPhotos", "done"}

\* C15: the candidate pools of the describe-missing-photos paths
\* (GetAllPhotosWithoutAIDescription for describe_photos,
\* GetPhotosWithoutAIDescription for start_rescan) never contain a photo whose
\* AI description is non-null at enumeration time.
C15_PoolHoldsOnlyUndescribedPhotos ==
  [][\A j \in Jobs :
       PhotoPoolReadInStep(j) =>
         /\ jJob[j].kind \in {"describe_photos", "start_rescan"}
         /\ \A k \in 1..Len(jJob'[j].photos) :
              /\ jJob'[j].photos[k] \in DOMAIN jPhotoDesc
              /\ ~jPhotoDesc[jJob'[j].photos[k]].Valid]_vars

\* both paths have read a pool from a database that also holds a described
\* photo: the rescan pool holds the photo of the nested album, the
\* describe_photos pool does not
C15_Witness ==
  \E j, k \in Jobs :
    /\ jJob[j].kind = "start_rescan" /\ jJob[j].photos = <<"p4">>
    /\ jJob[k].kind = "describe_photos" /\ jJob[k].pc = "complete" /\ jJob[k].photos = <<>>
    /\ jPhotoDesc["p1"] = EarlierDescription("p1")

(***************************************************************************)
(* Properties of GetPhotoSizeVariant  (under SpecVariant)                  *)
(***************************************************************************)
\* C16: GetPhotoSizeVariant returns the medium variant (type 2) whenever the
\* photo has one, returns the original (type 0) only when the photo has no
\* medium variant, and never returns a thumbnail; for a photo holding both
\* medium and original it returns medium.
C16_MediumPreferredOverOriginal ==
  vPc = "found" =>
    /\ SizeVariantMedium \in vRows => vResult.variant.Type = SizeVariantMedium
    /\ vResult.variant.Type = SizeVariantOriginal => SizeVariantMedium \notin vRows
    /\ vResult.variant.Type # SizeVariantThumb
    /\ vResult.variant.Type \in vRows

(***************************************************************************)
(* Properties of startup  (under SpecStartup)                              *)
(***************************************************************************)
\* the application has gone on to serve requests
Serving == uPc = "serving"

\* C18: Cache.Load with a missing file succeeds and leaves the cache empty;
\* with any other read or parse error the failure is startup-fatal: the
\* application does not go on to serve requests.
C18_LoadFailureIsStartupFatal ==
  /\ (uFile.kind = "missing" /\ uPc \in {"loaded", "serving"}) =>
       (uLoadErr = "" /\ uCache = EmptyCache)
  /\ (uFile.kind \in {"unreadable", "malformed"} /\ uPc \in {"loaded", "serving"}) =>
       uLoadErr # ""
  /\ uLoadErr # "" => ~Serving

(***************************************************************************)
(* Properties of the Suggestion Cache's entries  (under SpecSuggest)       *)
(***************************************************************************)
\* C17: once the Suggestion Cache holds an entry for a photo id, no later
\* sequence of suggestion requests changes that entry's value or removes it,
\* also when two requests for the same photo id both missed the cache before
\* either stored its result.
C17_CacheEntryNeverChanges ==
  [][\A p \in DOMAIN sCache :
       /\ p \in DOMAIN sCache'
       /\ sCache'[p] = sCache[p]]_vars

(***************************************************************************)
(* Properties of a failing compaction  (under SpecAlbum)                   *)
(***************************************************************************)
\* the step in which compressBatchDescriptions fails for a batch
CompressionFailsInStep == aPc = "compress" /\ aPc' = "error"

\* the call has returned a compaction error
FailedInCompaction ==
  /\ aPc = "error"
  /\ aResult.err \in {"failed to compact descriptions", "failed to compress batch"}

NoAlbumDescribed == \A k \in 1..Len(gAlbums) : ~gAlbums[k].AIDescription.Valid

\* C20: GenerateAlbumSuggestions returns an error and makes no inference call
\* when the target photo's AI description is null, and likewise when no
\* supplied album carries an AI description.
C20_RejectsWithoutInference ==
  (gPc \in {"done", "error"} /\ (~gPhoto.AIDescription.Valid \/ NoAlbumDescribed)) =>
    /\ gPc = "error"
    /\ gResult.err \in {"photo has no AI description", "no album descriptions"}
    /\ gResult.calls = 0
    /\ gResult.suggestions = <<>>

\* a call for the undescribed photo p2 with described albums was rejected
C20_Witness ==
  /\ gPc = "error"
  /\ ~gPhoto.AIDescription.Valid
  /\ ~NoAlbumDescribed
  /\ gResult.calls = 0
  /\ ~gAnswer.fails /\ gAnswer.parses

(***************************************************************************)
(* Properties of the returned description text  (under SpecThink)          *)
(***************************************************************************)
\* the completion "  Hello <think>ignore</think> World  "
ExampleCompletion ==
  <<SP, SP, "Hello", SP, THINK, "ignore", ENDTHINK, SP, "World", SP, SP>>

\* C21: for the completion "  Hello <think>ignore</think> World  " the value a
\* description operation returns is exactly "Hello World": the think block is
\* removed and the result is trimmed.
C21_ExampleReturnsHelloWorld ==
  (tPc = "done" /\ tCompletion = ExampleCompletion) =>
    tResult = <<"Hello", SP, "World">>

(***************************************************************************)
(* Properties of a job's event sequence  (under SpecJobs)                  *)
(***************************************************************************)
\* C22: the events of one job are zero or more progress events and then exactly
\* one terminal event (complete, or error when the pool enumeration failed);
\* nothing follows the terminal event, an error event is never preceded by a
\* progress event of the job, and an item failure produces no event of its own.
C22_EventsAreProgressThenOneTerminal ==
  /\ [](\A j \in Jobs :
          LET ev == jJob[j].events
              n == Len(ev)
          IN /\ \A k \in 1..n :
                  \/ ev[k].type = "progress"
                  \/ /\ k = n
                     /\ jJob[j].pc = "done"
                     /\ ev[k].type \in {"complete", "error"}
             /\ jJob[j].pc = "done" =>
                  (n >= 1 /\ ev[n].type \in {"complete", "error"})
             /\ (n >= 1 /\ ev[n].type = "error") => n = 1)
  /\ [][\A j \in Jobs :
          /\ jJob[j].pc = "done" => jJob'[j] = jJob[j]
          /\ \/ jJob'[j].events = jJob[j].events
             \/ \E e \in {jJob'[j].events[Len(jJob'[j].events)]} :
                  jJob'[j].events = Append(jJob[j].events, e)
          /\ (PhotoFailsInStep(j) \/ AlbumFailsInStep(j)) =>
               jJob'[j].events = jJob[j].events]_vars

\* a describe_all_albums job over two albums has ended with both albums failed:
\* two progress events and the complete event, nothing else
C22_Witness ==
  \E j \in Jobs :
    /\ jJob[j].kind = "describe_all_albums"
    /\ jJob[j].pc = "done"
    /\ Len(jJob[j].albumErrors) = 2
    /\ Len(jJob[j].events) = 3
    /\ jJob[j].events[1].type = "progress"
    /\ jJob[j].events[2].type = "progress"
    /\ jJob[j].events[3].type = "complete"

\* the album options exclude the album with this id
ScopeExcluded(id) ==
  \/ id \in kBlocklist
  \/ kPinnedOnly /\ \E i \in 1..Len(kRows) : kRows[i].ID = id /\ ~kRows[i].IsPinned
\* C23: no album on the configured blocklist, and with pinned_only no unpinned
\* album, is described by an album job or carried by a suggestions response,
\* whatever the cached list for the photo holds
C23_BlockedAlbumsNeverSurface ==
  /\ \A i \in 1..Len(kDescribed) : ~ScopeExcluded(kDescribed[i])
  /\ \A i \in 1..Len(kReturned) : ~ScopeExcluded(kReturned[i])
\* a response served from a cached list that names a blocked album, while
\* another album is let through
C23_Witness ==
  /\ kPc = "done"
  /\ kBlocklist = {"a1"}
  /\ kCached = <<"a3", "a1">> \/ kCached = <<"s1", "a2", "a1">>
  /\ kReturned = <<"a2">>

\* the progress event rescan sends for its k-th item
RescanProgress(job, k) ==
  ProgressEvent(IF k <= Len(job.photos) THEN "photos" ELSE "albums",
                k, Len(job.photos) + Len(job.albums))
\* the job stands in its photo loop
InPhotoStage(job) == job.pc \in {"photoProgress", "generate", "persistPhoto"}
\* the job stands in its album loop
InAlbumStage(job) ==
  job.pc \in {"albumProgress", "listPhotos", "describe", "persistAlbum"}
\* C24: a start_rescan job counts once across both stages: its k-th progress
\* event carries current k and total |photos| + |albums|, with stage photos for
\* k <= |photos| and stage albums after; the album loop is entered only when
\* every photo item has been begun and left
C24_RescanCountsAcrossStages ==
  /\ [](\A j \in Jobs :
          LET job == jJob[j]
              progress == EventsOfType(j, "progress")
          IN job.kind = "start_rescan" =>
               /\ \A k \in 1..Len(progress) : progress[k] = RescanProgress(job, k)
               /\ Len(progress) = job.current
               /\ InPhotoStage(job) => job.current <= Len(job.photos)
               /\ InAlbumStage(job) =>
                    /\ job.current >= Len(job.photos)
                    /\ SubSeq(job.began, 1, Len(job.photos)) = job.photos
               /\ job.pc = "done" /\ job.events[Len(job.events)].type = "complete" =>
                    job.current = Len(job.photos) + Len(job.albums))
  /\ [][\A j \in Jobs :
          jJob[j].kind = "start_rescan" /\ InAlbumStage(jJob'[j]) =>
            ~InPhotoStage(jJob'[j]) /\ (InAlbumStage(jJob[j]) \/ InPhotoStage(jJob[j])
                                         \/ jJob[j].pc = "enumAlbums")]_vars
\* a rescan over three photos and two albums that has sent all five events
C24_Witness ==
  \E j \in Jobs :
    /\ jJob[j].kind = "start_rescan"
    /\ jJob[j].pc = "complete"
    /\ Len(jJob[j].photos) = 3
    /\ Len(jJob[j].albums) = 2
    /\ jJob[j].current = 5
    /\ jJob[j].events[4] = ProgressEvent("albums", 4, 5)

\* elements from..to of the list, taken one by one
Slice(list, from, to) == [m \in 1..(to - from + 1) |-> list[from + m - 1]]
\* C25: a compaction level applied to a list of length L > B works on
\* ceil(L/B) batches, batch k holding the elements (k-1)*B+1 .. min(k*B, L) of
\* the list; the summaries are those of the batches in batch order; the level
\* hands on exactly ceil(L/B) summaries, fewer than L
C25_LevelYieldsOneSummaryPerBatch ==
  /\ [](aPc = "compress" =>
          LET B == maxDescriptionsBeforeCompaction
              L == Len(cDescs)
              n == Len(cBatches)
          IN /\ L > B
             /\ n * B >= L /\ (n - 1) * B < L
             /\ n < L
             /\ \A k \in 1..n :
                  /\ cBatches[k] = Slice(cDescs, (k - 1) * B + 1, Min(k * B, L))
                  /\ Len(cBatches[k]) >= 1 /\ Len(cBatches[k]) <= B
             /\ Len(cCompressed) <= n
             /\ \A k \in 1..Len(cCompressed) : cCompressed[k] = Summary(cBatches[k]))
  /\ [][aPc = "compress" /\ aPc' \in {"compact", "synth", "done"} =>
          LET out == IF aPc' = "compact" THEN cDescs'
                     ELSE IF aPc' = "synth" THEN aCompacted' ELSE aResult'.list
          IN /\ out = [k \in 1..Len(cBatches) |-> Summary(cBatches[k])]
             /\ Len(out) < Len(cDescs)]_vars
\* a second level over 32 summaries: two batches, of 30 and of 2
C25_Witness ==
  /\ aPc = "compress"
  /\ cLevel = 2
  /\ Len(cDescs) = 32
  /\ Len(cCompressed) = 2
  /\ Len(cBatches[2]) = 2

\* the number of descriptions compaction was called with
CompactionInput ==
  IF aInput.entry = "compactDescriptionsHierarchically" THEN aInput.n ELSE Len(aDescs)
\* compaction of more than one batch has returned
CompactionReturned ==
  /\ aPc \in {"synth", "done"}
  /\ CompactionInput > maxDescriptionsBeforeCompaction
\* ceil(log_b n): the least k with b^k >= n
CeilLog(b, n) == CHOOSE k \in 0..4 : b^k >= n /\ (k = 0 \/ b^(k - 1) < n)
\* C26 as stated: compaction of N > B descriptions performs ceil(log_B N)
\* levels that compress batches
C26_LevelsAreCeilLog ==
  CompactionReturned =>
    cLevel = CeilLog(maxDescriptionsBeforeCompaction, CompactionInput)
\* C26: compaction of N > B descriptions performs ceil(log_B N) - 1 levels that
\* compress batches: one level up to B^2 descriptions, two up to B^3
C26_LevelsAreCeilLogLessOne ==
  CompactionReturned =>
    /\ cLevel = CeilLog(maxDescriptionsBeforeCompaction, CompactionInput) - 1
    /\ cLevel >= 1
    /\ CompactionInput <= maxDescriptionsBeforeCompaction ^ (cLevel + 1)
    /\ CompactionInput > maxDescriptionsBeforeCompaction ^ cLevel
\* 901 descriptions: 31 summaries after the first level, 2 after the second
C26_Witness ==
  /\ CompactionReturned
  /\ CompactionInput = 901
  /\ cLevel = 2
  /\ Len(aResult.list) = 2

\* the description strings compressBatchDescriptions joins into its prompt
CompressPromptDescriptions == cBatches[Len(cCompressed) + 1]
\* the description strings buildAlbumDescriptionPrompt joins into its prompt
SynthPromptDescriptions == aCompacted
\* C27: every prompt built while an album is described embeds at most B = 30
\* description strings (and at least one): the prompt of each batch
\* compression at every level, and the prompt of the final synthesis
C27_PromptsEmbedAtMostB ==
  /\ [][/\ aCalls'.compress > aCalls.compress =>
             /\ Len(CompressPromptDescriptions) >= 1
             /\ Len(CompressPromptDescriptions) <= 30
        /\ aCalls'.synth > aCalls.synth =>
             /\ Len(SynthPromptDescriptions) >= 1
             /\ Len(SynthPromptDescriptions) <= 30]_vars
  /\ [](/\ aPc = "compress" =>
             \A k \in 1..Len(cBatches) : Len(cBatches[k]) <= 30
        /\ aPc = "synth" => Len(aCompacted) <= 30)
\* an album of more than 60 described photos: three compression prompts, then
\* a synthesis prompt over the three summaries
C27_Witness ==
  /\ IsAlbumCall
  /\ aPc = "done"
  /\ Len(aDescs) > 60
  /\ aCalls = [compress |-> 3, synth |-> 1]
  /\ Len(aCompacted) = 3

PhotoSteps == <<"variant", "video", "fetch", "inference", "persist">>
\* the steps item i has taken, in the order taken
StepsOfItem(i) == SelectSeq(iTrace, LAMBDA e : e.item = i)
\* item i has been left by the loop
ItemEnded(i) == iIdx > i \/ iPc = "done"
\* C28: each photo item takes its steps in the order variant lookup, video
\* check, image fetch, inference, persist, each only after all earlier ones
\* succeeded; UpdatePhotoAIDescription is called for an item exactly when its
\* inference succeeded; a video item has neither a fetch nor an inference;
\* item i+1 starts only after item i has ended
C28_PhotoStepsInOrder ==
  /\ \A i \in 1..Len(iPhotos) :
       LET steps == StepsOfItem(i)
       IN /\ Len(steps) <= Len(PhotoSteps)
          /\ \A k \in 1..Len(steps) :
               /\ steps[k].step = PhotoSteps[k]
               /\ k < Len(steps) => steps[k].ok
          /\ ItemEnded(i) =>
               /\ Len(steps) >= 1
               /\ (\E k \in 1..Len(steps) : steps[k].step = "persist")
                    <=> (\E k \in 1..Len(steps) :
                           steps[k].step = "inference" /\ steps[k].ok)
               /\ Len(steps) < Len(PhotoSteps) => ~steps[Len(steps)].ok
          /\ iPhotos[i].movie =>
               \A k \in 1..Len(steps) : steps[k].step \notin {"fetch", "inference", "persist"}
          /\ i \in iStored =>
               \E k \in 1..Len(steps) : steps[k] = [item |-> i, step |-> "persist", ok |-> TRUE]
  /\ \A k \in 1..Len(iTrace) :
       /\ iTrace[k].item \in 1..Len(iPhotos)
       /\ k < Len(iTrace) =>
            \/ iTrace[k + 1].item = iTrace[k].item
            \/ /\ iTrace[k + 1].item = iTrace[k].item + 1
               /\ iTrace[k + 1].step = "variant"
               /\ ~iTrace[k].ok \/ iTrace[k].step = "persist"
\* a video is passed over after its check, and the photo after it goes through
\* all five steps
C28_Witness ==
  /\ iPc = "done"
  /\ Len(iPhotos) = 2
  /\ iPhotos[1].movie
  /\ Len(StepsOfItem(1)) = 2
  /\ Len(StepsOfItem(2)) = 5
  /\ iStored = {2}

\* request r takes a step
StepOf(r) == sReq'[r] # sReq[r] /\ sReq'[r].pc # "crashed"
\* request r is on the miss path before its Set
BeforeSet(r) == sReq[r].pc \in {"listAlbums", "listPhotos", "generate"}
\* C29: on a cache miss every step up to and including GenerateAlbumSuggestions
\* leaves the cache map and the cache file as they are, and a failure there
\* ends the request with an error status; when generation succeeds the handler
\* goes through one Set of (photo id, result), then one Save, and only then
\* builds the response
C29_MissWritesOnlyAfterSuccess ==
  [][\A r \in Requests :
       StepOf(r) =>
         /\ BeforeSet(r) =>
              /\ sCache' = sCache /\ sFile' = sFile
              /\ sReq'[r].pc \in {"listPhotos", "generate", "set", "done"}
              /\ sReq'[r].pc = "done" => sReq'[r].status \in {404, 500}
              /\ sReq'[r].pc = "set" =>
                   /\ sReq[r].pc = "generate"
                   /\ sReq'[r].calls = sReq[r].calls + 1
         /\ sReq[r].pc = "set" =>
              sReq'[r].pc = "setting" /\ sCache' = sCache /\ sFile' = sFile
         /\ sReq[r].pc = "setting" =>
              /\ sReq'[r].pc = "save"
              /\ sReq[r].photoID \in DOMAIN sCache'
              /\ sCache'[sReq[r].photoID] = sReq[r].suggestions
              /\ \A id \in DOMAIN sCache' \ {sReq[r].photoID} :
                   id \in DOMAIN sCache /\ sCache'[id] = sCache[id]
              /\ sFile' = sFile
         /\ sReq[r].pc = "save" =>
              sReq'[r].pc = "respond" /\ sCache' = sCache
         /\ sReq[r].pc = "respond" =>
              sReq'[r].pc = "done" /\ sCache' = sCache /\ sFile' = sFile
         /\ (sReq'[r].pc = "respond" /\ ~sReq'[r].cached) => sReq[r].pc = "save"
         /\ (sReq'[r].pc = "done" /\ sReq'[r].status = 200) => sReq[r].pc = "respond"]_vars
\* one request missed and was answered after its list was stored and saved; the
\* other missed and failed in generation, leaving map and file as they were
C29_Witness ==
  \E r, q \in Requests :
    /\ sReq[r].pc = "done" /\ sReq[r].status = 200
    /\ ~sReq[r].cached /\ ~sReq[r].hadEntry
    /\ sReq[r].photoID \in DOMAIN sCache
    /\ sFile = [exists |-> TRUE, content |-> sCache]
    /\ sReq[q].pc = "done" /\ sReq[q].status = 500 /\ sReq[q].calls = 1
    /\ sReq[q].photoID \notin DOMAIN sCache

\* C30: every id GenerateAlbumSuggestions returns is the id of a supplied album
\* that carries an AI description, one of those listed in the ranking prompt; a
\* supplied album without a description is never returned
C30_ReturnedAlbumsAreDescribed ==
  gPc = "done" =>
    \A i \in 1..Len(gResult.suggestions) :
      \E j \in 1..Len(AlbumDescs(gAlbums)) :
        AlbumDescs(gAlbums)[j].ID = gResult.suggestions[i]

\* the entries of the model's album_ids that name a supplied album, in the
\* model's order
ValidEntries ==
  SelectSeq(gAnswer.album_ids, LAMBDA id : \E j \in 1..Len(gAlbums) : gAlbums[j].ID = id)
\* C31: the list GenerateAlbumSuggestions returns is the first min(3, k)
\* entries of the model's album_ids restricted to valid ids, k the number of
\* valid entries, in the model's order; it is shorter than 3 exactly when
\* fewer than 3 entries of the model's list are valid
C31_FirstThreeValidInOrder ==
  gPc = "done" =>
    LET k == Len(ValidEntries)
    IN /\ gResult.suggestions = SubSeq(ValidEntries, 1, IF k < 3 THEN k ELSE 3)
       /\ Len(gResult.suggestions) < 3 <=> k < 3
\* the model named a made-up id among its first three and four valid ids in
\* all; three came back
C31_Witness ==
  /\ gPc = "done"
  /\ Len(gAnswer.album_ids) = 5
  /\ \E i \in 1..3 : gAnswer.album_ids[i] \notin ValidAlbumIDs(gAlbums)
  /\ Len(ValidEntries) = 4
  /\ Len(gResult.suggestions) = 3
  /\ gResult.suggestions[1] # gResult.suggestions[2]

\* job j has ended by a panic of the process
ConnCrashed(j) == nJob[j].pc = "crashed"
\* C32: terminating the connection leaves the running jobs as they are; a
\* write that fails moves the job on exactly as a delivered one does (after a
\* progress event to the item's generation, after the complete event to the
\* end), and a job that has ended has attempted every item of its pool and
\* called the update for each item whose generation succeeded
C32_ClosedConnectionDoesNotStopJobs ==
  /\ [][/\ (nOpen /\ ~nOpen') => nJob' = nJob
        /\ \A j \in Jobs :
             (ConnWriting(j) /\ nJob'[j] # nJob[j] /\ ~ConnCrashed(j)') =>
               /\ nJob'[j].pc = IF nJob[j].pc = "writingProgress" THEN "generate" ELSE "done"
               /\ nJob'[j].i = nJob[j].i
               /\ nJob'[j].sent + nJob'[j].lost = nJob[j].sent + nJob[j].lost + 1
               /\ ~nOpen => nJob'[j].lost = nJob[j].lost + 1]_vars
  /\ [](\A j \in Jobs :
          /\ nJob[j].pc = "done" =>
               /\ nJob[j].attempted = 1..nJob[j].total
               /\ nJob[j].updates = nJob[j].succeeded
               /\ nJob[j].sent + nJob[j].lost = nJob[j].total + 1
          /\ nJob[j].pc \notin {"idle", "crashed"} =>
               /\ nJob[j].attempted \in {1..(nJob[j].i - 1), 1..nJob[j].i}
               /\ nJob[j].updates \subseteq nJob[j].succeeded)
\* the connection went away after the first progress event of a job over two
\* items: both items were still attempted and stored, two events were lost
C32_Witness ==
  \E j \in Jobs :
    /\ ~nOpen
    /\ nJob[j].pc = "done"
    /\ nJob[j].total = 2
    /\ nJob[j].sent = 1
    /\ nJob[j].lost = 2
    /\ nJob[j].updates = {1, 2}

\* C40: at most one job task is inside a write to the connection at any time
C40_OneWriterAtATime ==
  \A j, k \in Jobs : (ConnWriting(j) /\ ConnWriting(k)) => j = k

\* the kinds of job that describe every top-level album
AllAlbumKinds == {"describe_all_albums", "start_rescan"}
\* job j enumerates its album pool in this step
AlbumPoolReadInStep(j) ==
  jJob[j].pc = "enumAlbums" /\ jJob'[j].pc \in {"albumProgress", "photoProgress", "complete"}
\* job j has the member photos of its current album listed in this step
AlbumListedInStep(j) == jJob[j].pc = "listPhotos" /\ jJob'[j] # jJob[j]
\* the pools: all top-level albums for describe_all_albums and rescan, described
\* or not; for retry the top-level albums without a description when the pool
\* is read; a pool never changes afterwards
AlbumPoolsAsEnumerated ==
  \A j \in Jobs :
    /\ (AlbumPoolReadInStep(j) /\ jJob[j].kind \in AllAlbumKinds) =>
         \A a \in {"a1", "a2"} :
           a \in DOMAIN jAlbumDesc <=> \E k \in 1..Len(jJob'[j].albums) : jJob'[j].albums[k] = a
    /\ (AlbumPoolReadInStep(j) /\ jJob[j].kind = "retry_album_failures") =>
         \A a \in {"a1", "a2"} :
           (a \in DOMAIN jAlbumDesc /\ ~jAlbumDesc[a].Valid)
             <=> \E k \in 1..Len(jJob'[j].albums) : jJob'[j].albums[k] = a
    /\ jJob[j].pc \notin {"idle", "enumPhotos", "enumAlbums"} =>
         jJob'[j].albums = jJob[j].albums
\* a stored album description is written only by the persist step of the job's
\* current album, which replaces whatever was stored with the new text
AlbumSuccessReplaces ==
  \A a \in DOMAIN jAlbumDesc :
    jAlbumDesc'[a] # jAlbumDesc[a] =>
      \E j \in Jobs :
        /\ jJob[j].pc = "persistAlbum"
        /\ jJob[j].albums[jJob[j].i] = a
        /\ jAlbumDesc'[a] = Described(jJob[j].description)
C34_SaveThenLoadIsIdentity ==
  qPc = "loaded" =>
    /\ DOMAIN qLoaded = DOMAIN qCache
    /\ \A id \in DOMAIN qCache : qLoaded[id] = qCache[id]
    /\ \A id \in TripPhotoIds \cup {"p9"} : CacheGet(qLoaded, id) = CacheGet(qCache, id)
\* a cache with a nil list for one photo and two albums for another came back
C34_Witness ==
  /\ qPc = "loaded"
  /\ DOMAIN qCache = {"p1", "p2"}
  /\ qCache["p1"] = NilSlice
  /\ qCache["p2"] = SliceOf(<<"a2", "a1">>)
  /\ qLoaded = qCache

\* job j has GenerateAlbumDescription return for an album none of whose member
\* photos has a description
NoInputInStep(j) ==
  /\ jJob[j].pc = "describe"
  /\ jJob'[j] # jJob[j]
  /\ Len(SelectSeq(jJob[j].members, LAMBDA ph : ph.AIDescription.Valid)) = 0
\* C35: when GenerateAlbumDescription is called with member photos none of
\* which has a description, no inference call is made, the stored description
\* of the album stays as it is, and the job records exactly one album error for
\* the album, the "no photo descriptions available" error
C35_NoInputIsOneAlbumError ==
  [][\A j \in Jobs :
       NoInputInStep(j) =>
         /\ jJob'[j].calls = jJob[j].calls
         /\ jAlbumDesc' = jAlbumDesc
         /\ jJob'[j].albumErrors =
              Append(jJob[j].albumErrors,
                     [ item |-> jJob[j].albums[jJob[j].i],
                       error |-> "no photo descriptions available" ])]_vars

\* C36: the text generateWithRetry returns is the trimmed concatenation, in
\* arrival order, of the fragments of the attempt that succeeded, and of no
\* other attempt: what a failed attempt delivered is not part of it
C36_ResultIsFinalAttemptOnly ==
  rPc = "done" =>
    /\ ~rResult.err
    /\ rHistory[Len(rHistory)].ok
    /\ rResult.text = TrimSpace(Concat(rHistory[Len(rHistory)].frags))
    /\ rResponse = Concat(rHistory[Len(rHistory)].frags)
\* an attempt that delivered fragments failed, and the next one succeeded with
\* two fragments
C36_Witness ==
  /\ rPc = "done"
  /\ Len(rHistory) = 2
  /\ rHistory[1].frags = << <<SP, "Hello">> >>
  /\ rHistory[2].frags = << <<SP, "Hello">>, <<"World", SP>> >>
  /\ rResult.text = <<"Hello", "World">>

\* the complete events of job j that carry an error summary
SummaryEvents(j) ==
  SelectSeq(jJob[j].events,
            LAMBDA e : e.type = "complete" /\ "errors" \in DOMAIN e.payload)
\* the entries of an error list name pairwise different items of the pool
OnePerItem(errors, pool) ==
  /\ \A i \in 1..Len(errors) : \E k \in 1..Len(pool) : pool[k] = errors[i].item
  /\ \A i, k \in 1..Len(errors) : i # k => errors[i].item # errors[k].item
\* C37: in every complete event with an error summary total_errors is the
\* number of photo errors plus the number of album errors, no pool item has
\* more than one entry, and the N of "Described N photos/albums" is the pool
\* size less total_errors, between 0 and the pool size
C37_SummaryCountsAddUp ==
  \A j \in Jobs :
    \A n \in 1..Len(SummaryEvents(j)) :
      LET payload == SummaryEvents(j)[n].payload
          errors == payload.errors
          total == Len(PoolItems(j))
      IN /\ errors.total_errors = Len(errors.photo_errors) + Len(errors.album_errors)
         /\ OnePerItem(errors.photo_errors, jJob[j].photos)
         /\ OnePerItem(errors.album_errors, jJob[j].albums)
         /\ errors.total_errors <= total
         /\ payload.message[1] = "Described" =>
              /\ payload.message[2] = total - errors.total_errors
              /\ payload.message[2] >= 0
              /\ payload.message[2] <= total
\* describe_all_albums over two albums ended with one of them failed
C37_Witness ==
  \E j \in Jobs :
    /\ jJob[j].kind = "describe_all_albums"
    /\ Len(SummaryEvents(j)) = 1
    /\ SummaryEvents(j)[1].payload.message = <<"Described", 1, "albums">>
    /\ SummaryEvents(j)[1].payload.errors.total_errors = 1
    /\ Len(jJob[j].albums) = 2

\* the member photos of the call that have, and that lack, an AI description
DescribedMembers ==
  { i \in 1..aInput.n : PhotoAt(aInput.base, i).AIDescription.Valid }
UndescribedMembers == (1..aInput.n) \ DescribedMembers
MemberDate(i) == FormatDate(EffectiveTime(PhotoAt(aInput.base, i)))
AlbumExtracted == IsAlbumCall /\ aPc # "ready"

\* C38: extractPhotoData yields one date per member photo, described or
\* not, and one description per described photo only, so the two lists may
\* differ in length; the appended range runs over the dates of all member
\* photos, so an undescribed photo's date can be its start or its end.
C38_DatesCoverUndescribedPhotos ==
  /\ AlbumExtracted
       => /\ Len(aDates) = aInput.n
          /\ \A i \in 1..aInput.n : aDates[i] = MemberDate(i)
          /\ Len(aDescs) = Cardinality(DescribedMembers)
          /\ Len(aDates) - Len(aDescs) = Cardinality(UndescribedMembers)
  /\ (IsAlbumCall /\ aPc = "done")
       => /\ \E i \in 1..aInput.n : ResultX = MemberDate(i)
          /\ \E i \in 1..aInput.n : ResultY = MemberDate(i)
          /\ \A i \in 1..aInput.n :
               /\ ~StrLess(MemberDate(i), ResultX)
               /\ ~StrLess(ResultY, MemberDate(i))

\* a described album whose range starts or ends at a date that only an
\* undescribed member photo has, with fewer descriptions than dates
C38_Witness ==
  /\ IsAlbumCall
  /\ aPc = "done"
  /\ Len(aDescs) < Len(aDates)
  /\ \/ \A i \in DescribedMembers : MemberDate(i) # ResultX
     \/ \A i \in DescribedMembers : MemberDate(i) # ResultY

\* request r asks the cache for photo id while the map holds an empty list
\* for it
AsksForEmptyEntry(r, id) ==
  /\ sReq[r].pc = "idle"
  /\ sReq'[r].pc \notin {"idle", "crashed"}
  /\ sReq'[r].photoID = id
  /\ id \in DOMAIN sCache
  /\ sCache[id] = <<>>
\* request r ends its Set of an empty list that generation returned
StoresEmptyList(r) ==
  /\ sReq[r].pc = "setting"
  /\ sReq'[r].pc = "save"
  /\ sReq[r].suggestions = <<>>
\* request r answers from an empty list the cache gave it
AnswersEmptyHit(r) ==
  /\ sReq[r].pc = "respond"
  /\ sReq[r].cached
  /\ sReq[r].suggestions = <<>>
  /\ sReq'[r].pc = "done"
  /\ sReq'[r].status = 200

\* C39: an empty list that generation returned is stored under the photo id;
\* every request that asks for a photo id whose entry is the empty list is a
\* cache hit, goes straight to the response, returns no albums and makes no
\* inference call.
C39_EmptyEntryAlwaysHits ==
  [][\A r \in Requests :
       /\ StoresEmptyList(r)
            => /\ sReq[r].photoID \in DOMAIN sCache'
               /\ sCache'[sReq[r].photoID] = <<>>
       /\ \A id \in RequestPhotoIds :
            AsksForEmptyEntry(r, id)
              => /\ sReq'[r].cached
                 /\ sReq'[r].pc = "respond"
                 /\ sReq'[r].suggestions = <<>>
       /\ AnswersEmptyHit(r)
            => /\ sReq'[r].response = <<>>
               /\ sReq'[r].calls = 0]_vars

====
